---- MODULE Spec2Model ----
(***************************************************************************)
(* The tiered memory subsystem of cursor-systems: the short-term store     *)
(* (rules/301, src/unnamed/part_002), the database-backed semantic store    *)
(* (db/memory-system.js), the in-memory semantic store (rules/303), the     *)
(* episodic store (rules/001-system-core.mdc) and the memory controller     *)
(* (rules/105-cms-specialist-agent.mdc).                                    *)
(*                                                                          *)
(* Text is a sequence of one-character strings, so that substring search,  *)
(* lower-casing and id concatenation are computed, not assumed.            *)
(* A JavaScript value is a record [t, s, n]: its typeof tag, its text and  *)
(* its number.                                                             *)
(***************************************************************************)
EXTENDS Integers, Sequences, FiniteSets, Bags, TLC

VARIABLES
    now,              \* Date.now()
    contexts,         \* ShortTermMemory.contexts, the named scalar containers
    working_context,  \* ShortTermMemory.contexts.working_context
    lastCall,         \* the last public call: operation, arguments, return value
    registered,       \* which script registered the semantic functions first
    semantic_knowledge,       \* MemoryDB: rows of table semantic_knowledge
    knowledge_relationships,  \* MemoryDB: rows of table knowledge_relationships
    memory_queries,           \* MemoryDB: rows of table memory_queries
    semantic,                 \* MEMORY_SYSTEM.semantic[topic][id] of rules/303
    knowledgeRelationships,   \* MEMORY_SYSTEM.knowledgeRelationships of rules/303
    db,               \* MEMORY_SYSTEM.db: MemoryDB, or the simulated db of rules/001
    conversations,    \* the conversations array of the simulated db
    pc,               \* position of the controller inside processInteraction
    call,             \* processInteraction: arguments and locals of the current call
    calls,            \* number of processInteraction calls made
    failures,         \* number of them that raised or took the catch branch
    conversation_context,  \* ShortTermMemory.contexts.conversation_context
    added,            \* every turn addConversationTurn has pushed, in order
    short_term_memory,  \* MemoryDB: rows of table short_term_memory
    summaries,        \* the summaries array of the simulated db
    connection,       \* db of db/memory-system.js: the sqlite handle, or the stub
    episodic_memory,  \* MemoryDB: rows of table episodic_memory
    installed,        \* which of the three systems globalThis holds, and in what form
    nextResponsePrepend,  \* globalThis.nextResponsePrepend: the banners
    bannerCached,     \* direct-banner.js is in require.cache
    memoryObject,     \* which object globalThis.MEMORY_SYSTEM is
    tasks,            \* globalThis.SCRATCHPAD.tasks
    messages          \* globalThis.SCRATCHPAD.messages

stmVars == <<contexts, working_context>>
dbVars == <<semantic_knowledge, knowledge_relationships, memory_queries>>
memVars == <<semantic, knowledgeRelationships>>
semVars == <<registered, dbVars, memVars>>
epiVars == <<db, conversations>>
ctlVars == <<pc, call, calls, failures>>
turnVars == <<conversation_context, added>>
padVars == <<installed, nextResponsePrepend, bannerCached, tasks, messages, memoryObject>>
tblVars == <<short_term_memory, summaries, connection, episodic_memory, padVars>>

vars == <<now, stmVars, lastCall, semVars, epiVars, ctlVars, turnVars, tblVars>>

-----------------------------------------------------------------------------
(* Bounds of the model *)

MaxTime == 2
MaxItems == 3
MaxNodes == 2
MaxRels == 2
MaxCalls == 6
MaxEpisodes == 3
MaxTurnCalls == 12
MaxQueries == 2
MaxSummaries == 3
MaxStored == 2
MaxHits == 3
MaxTasks == 2
MaxMessages == 3

(* Program constants *)

memory_limit == 1000

-----------------------------------------------------------------------------
(* JavaScript values *)

Undefined == [t |-> "undefined", s |-> <<>>, n |-> 0]
Null == [t |-> "null", s |-> <<>>, n |-> 0]
EmptyObject == [t |-> "object", s |-> <<>>, n |-> 0]
Absent == [t |-> "absent", s |-> <<>>, n |-> 0]
Str(s) == [t |-> "string", s |-> s, n |-> 0]
Num(n) == [t |-> "number", s |-> <<>>, n |-> n]
Bool(b) == [t |-> "boolean", s |-> <<>>, n |-> IF b THEN 1 ELSE 0]
\* an array
Arr(list) == [t |-> "array", s |-> <<>>, n |-> 0, items |-> list]

\* typeof v === 'object' (true of null as well)
TypeofObject(v) == v.t \in {"object", "null"}

Min(a, b) == IF a < b THEN a ELSE b

-----------------------------------------------------------------------------
(* Inputs *)

CtxNames == {"alpha", "user_context", "session_id"}
\* the names the memory controller stores under
ControllerNames == {"current_query", "enriched_context", "last_response",
                    "interaction_count", "conversation_summary"}
CtxValues == {Str(<<"v">>), Str(<<"w">>), Str(<<>>), Num(0), Null, Undefined}

WcTopics == {<<"g", "o", "a", "l">>}
WcDetails == {<<"s", "h", "i", "p">>}
WcImportances == {1, 3, 5}
WcExpiries == {0, 1, 2}         \* 0 stands for "expires: null"
RandomDraws == {17}             \* Math.floor(Math.random() * 10000)
\* the draws of successive Math.random() calls inside one operation: the
\* same number again (step 0), or different numbers (step 1)
RandomStreams == {[first |-> 17, step |-> 0], [first |-> 17, step |-> 1]}
PruneTargets == 0..MaxItems     \* 0 also stands for an omitted targetSize

\* rules/303 and db/memory-system.js both register the semantic functions only
\* when MEMORY_SYSTEM has none yet: the script that runs first provides them
\* db/memory-system.js, once loaded, makes MEMORY_SYSTEM.db its MemoryDB,
\* before or after rules/001 installed its simulated db; the configurations
\* are <<who registered the semantic functions, what MEMORY_SYSTEM.db is>>
Configurations ==
    {<<"MemoryDB", "MemoryDB">>, <<"rules", "MemoryDB">>, <<"rules", "simulated">>}

NoCall == [op |-> "none", key |-> "", arg |-> Undefined, ret |-> Undefined]

-----------------------------------------------------------------------------
(* ShortTermMemory: named contexts *)

\* initializeContexts: session_id is a string, user_context is {}, the other
\* names are not keys yet
InitContexts ==
    [k \in CtxNames \cup ControllerNames |->
        IF k = "session_id" THEN Str(<<"s", "1">>)
        ELSE IF k = "user_context" THEN EmptyObject
        ELSE Absent]

\* the container is created (line 181) but the value is never written
storeContextValue_Unwritten(ctx, contextName, value) == [ctx EXCEPT ![contextName] = Null]

\* this.contexts[contextName] = value, the container created when missing
storeContextValue(ctx, contextName, value) == [ctx EXCEPT ![contextName] = value]

\* getContext: null when contextName is no key, the stored value otherwise
getContext(ctx, contextName) ==
    IF ctx[contextName] = Absent THEN Null ELSE ctx[contextName]

StoreContext(contextName, value) ==
    /\ contexts' = storeContextValue(contexts, contextName, value)
    /\ lastCall' = [op |-> "storeContext", key |-> contextName, arg |-> value,
                    ret |-> Bool(TRUE)]
    /\ UNCHANGED <<now, working_context, semVars, epiVars, ctlVars, turnVars, tblVars>>

GetContext(contextName) ==
    /\ lastCall' = [op |-> "getContext", key |-> contextName, arg |-> Undefined,
                    ret |-> getContext(contexts, contextName)]
    /\ UNCHANGED <<now, contexts, working_context, semVars, epiVars, ctlVars, turnVars, tblVars>>

\* clearContext(contextName) on a scalar container: {} for an object (and for
\* null, whose typeof is 'object'), null otherwise; false when no such key
clearedValue(v) == IF TypeofObject(v) THEN EmptyObject ELSE Null

ClearContext(contextName) ==
    /\ IF contexts[contextName] = Absent
         THEN /\ contexts' = contexts
              /\ lastCall' = [op |-> "clearContext", key |-> contextName,
                              arg |-> Undefined, ret |-> Bool(FALSE)]
         ELSE /\ contexts' = [contexts EXCEPT ![contextName] = clearedValue(@)]
              /\ lastCall' = [op |-> "clearContext", key |-> contextName,
                              arg |-> Undefined, ret |-> Bool(TRUE)]
    /\ UNCHANGED <<now, working_context, semVars, epiVars, ctlVars, turnVars, tblVars>>

-----------------------------------------------------------------------------
(* ShortTermMemory: working context *)

\* the filter of getWorkingContext and pruneMemory keeps an item when
\* !item.expires || item.expires > now
IsExpired(item, t) == item.expires # 0 /\ ~(item.expires > t)

\* working_context.filter(item => !item.expires || item.expires > now)
RECURSIVE RemoveExpired(_, _)
RemoveExpired(list, t) ==
    IF list = <<>> THEN <<>>
    ELSE IF IsExpired(Head(list), t) THEN RemoveExpired(Tail(list), t)
         ELSE <<Head(list)>> \o RemoveExpired(Tail(list), t)

\* Array.prototype.sort is stable: an item goes behind every item that does
\* not have to follow it
RECURSIVE InsertAscending(_, _)
InsertAscending(sorted, item) ==
    IF sorted = <<>> THEN <<item>>
    ELSE IF Head(sorted).importance <= item.importance
         THEN <<Head(sorted)>> \o InsertAscending(Tail(sorted), item)
         ELSE <<item>> \o sorted

RECURSIVE SortAscending(_)
SortAscending(list) ==
    IF list = <<>> THEN <<>>
    ELSE InsertAscending(SortAscending(SubSeq(list, 1, Len(list) - 1)), list[Len(list)])

RECURSIVE InsertDescending(_, _)
InsertDescending(sorted, item) ==
    IF sorted = <<>> THEN <<item>>
    ELSE IF Head(sorted).importance >= item.importance
         THEN <<Head(sorted)>> \o InsertDescending(Tail(sorted), item)
         ELSE <<item>> \o sorted

RECURSIVE SortDescending(_)
SortDescending(list) ==
    IF list = <<>> THEN <<>>
    ELSE InsertDescending(SortDescending(SubSeq(list, 1, Len(list) - 1)), list[Len(list)])

\* sort ascending, slice(excessItems), sort descending
KeepMostImportant(list, targetSize) ==
    SortDescending(SubSeq(SortAscending(list), Len(list) - targetSize + 1, Len(list)))

\* if (!targetSize) targetSize = this.metadata.memory_limit
EffectiveTarget(targetSize) == IF targetSize = 0 THEN memory_limit ELSE targetSize

\* eviction by importance with the expiry phase left out
Pruned_ImportanceOnly(list, targetSize, t) ==
    IF Len(list) <= EffectiveTarget(targetSize) THEN list
    ELSE KeepMostImportant(list, EffectiveTarget(targetSize))

\* the list pruneMemory leaves
Pruned(list, targetSize, t) ==
    IF Len(list) <= EffectiveTarget(targetSize) THEN list
    ELSE IF Len(RemoveExpired(list, t)) > EffectiveTarget(targetSize)
         THEN KeepMostImportant(RemoveExpired(list, t), EffectiveTarget(targetSize))
         ELSE RemoveExpired(list, t)

AddWorkingContext(topic, details, importance, expires, r) ==
    /\ Len(working_context) < MaxItems
    /\ LET item == [id |-> <<now, r>>, topic |-> topic, details |-> details,
                    importance |-> importance, created_at |-> now,
                    expires |-> expires]
           pushed == Append(working_context, item)
       IN /\ working_context' =
                 IF Len(pushed) > memory_limit THEN Pruned(pushed, 0, now) ELSE pushed
          /\ lastCall' = [op |-> "addWorkingContext", key |-> "working_context",
                          arg |-> Num(importance), ret |-> Num(item.id[2])]
    /\ UNCHANGED <<now, contexts, semVars, epiVars, ctlVars, turnVars, tblVars>>

PruneMemory(targetSize) ==
    /\ working_context' = Pruned(working_context, targetSize, now)
    /\ lastCall' = [op |-> "pruneMemory", key |-> "working_context",
                    arg |-> Num(targetSize),
                    ret |-> Num(Len(working_context) - Len(working_context'))]
    /\ UNCHANGED <<now, contexts, semVars, epiVars, ctlVars, turnVars, tblVars>>

\* getWorkingContext({topic, minImportance, maxItems}): filter by topic when
\* one is given, by importance, drop what has expired, sort by importance
\* descending, slice when maxItems is truthy and smaller than the result
getWorkingContext(list, topic, minImportance, maxItems, t) ==
    LET byTopic == IF topic # <<>>
                   THEN SelectSeq(list, LAMBDA item : item.topic = topic)
                   ELSE list
        byImportance == SelectSeq(byTopic, LAMBDA item : item.importance >= minImportance)
        result == SortDescending(RemoveExpired(byImportance, t))
    IN IF maxItems # 0 /\ Len(result) > maxItems THEN SubSeq(result, 1, maxItems)
       ELSE result

GetWorkingContext(topic, minImportance, maxItems) ==
    /\ lastCall' = [op |-> "getWorkingContext", key |-> "working_context",
                    arg |-> [t |-> "object", topic |-> topic,
                             minImportance |-> minImportance, maxItems |-> maxItems],
                    ret |-> Arr(getWorkingContext(working_context, topic, minImportance,
                                                  maxItems, now))]
    /\ UNCHANGED <<now, stmVars, semVars, epiVars, ctlVars, turnVars, tblVars>>

\* const maxTurns = 10
maxTurns == 10

\* the oldest turns are kept instead of the latest
keptTurns_Oldest(list) ==
    IF Len(list) > maxTurns THEN SubSeq(list, 1, maxTurns) ELSE list

\* conversation_context.slice(-maxTurns) when the list is longer than maxTurns
keptTurns(list) ==
    IF Len(list) > maxTurns THEN SubSeq(list, Len(list) - maxTurns + 1, Len(list))
    ELSE list

\* addConversationTurn({role, content}): the turn, stamped with the current
\* time, is pushed and the list cut to its last maxTurns turns
AddConversationTurn(role, content) ==
    /\ Len(added) < MaxTurnCalls
    /\ LET turn == [role |-> role, content |-> content, timestamp |-> now]
       IN /\ conversation_context' = keptTurns(Append(conversation_context, turn))
          /\ added' = Append(added, turn)
    /\ lastCall' = [op |-> "addConversationTurn", key |-> "conversation_context",
                    arg |-> Str(content), ret |-> Bool(TRUE)]
    /\ UNCHANGED <<now, stmVars, semVars, epiVars, ctlVars, tblVars>>

\* getConversationContext(count): conversation_context.slice(-count), which
\* is the whole list for count 0
GetConversationContext(count) ==
    /\ lastCall' = [op |-> "getConversationContext", key |-> "conversation_context",
                    arg |-> Num(count),
                    ret |-> Arr(IF count = 0 \/ count >= Len(conversation_context)
                                THEN conversation_context
                                ELSE SubSeq(conversation_context,
                                            Len(conversation_context) - count + 1,
                                            Len(conversation_context)))]
    /\ UNCHANGED <<now, stmVars, semVars, epiVars, ctlVars, turnVars, tblVars>>

\* time passes between calls
Tick ==
    /\ now < MaxTime
    /\ now' = now + 1
    /\ UNCHANGED <<stmVars, lastCall, semVars, epiVars, ctlVars, turnVars, tblVars>>


-----------------------------------------------------------------------------
(* Text and conversions *)

Digit == <<"0", "1", "2", "3", "4", "5", "6", "7", "8", "9">>

\* a non-negative integer written in decimal
RECURSIVE NumToText(_)
NumToText(n) ==
    IF n < 10 THEN <<Digit[n + 1]>>
    ELSE NumToText(n \div 10) \o <<Digit[(n % 10) + 1]>>

DigitValue(c) == CHOOSE d \in 0..9 : Digit[d + 1] = c

\* text that JSON.parse reads as a non-negative integer
IsNumberText(text) ==
    /\ text # <<>>
    /\ \A i \in 1..Len(text) : \E d \in 1..10 : Digit[d] = text[i]
    /\ (Len(text) = 1 \/ text[1] # "0")

RECURSIVE TextToNum(_)
TextToNum(text) ==
    IF text = <<>> THEN 0
    ELSE 10 * TextToNum(SubSeq(text, 1, Len(text) - 1)) + DigitValue(text[Len(text)])

\* String(v), also what a template literal makes of v
ToText(v) ==
    CASE v.t = "string" -> v.s
      [] v.t = "number" -> NumToText(v.n)
      [] v.t = "boolean" -> IF v.n = 1 THEN <<"t", "r", "u", "e">>
                            ELSE <<"f", "a", "l", "s", "e">>
      [] v.t = "null" -> <<"n", "u", "l", "l">>
      [] v.t = "undefined" -> <<"u", "n", "d", "e", "f", "i", "n", "e", "d">>
      [] OTHER -> <<"[", "o", "b", "j", "e", "c", "t", " ", "O", "b", "j", "e", "c", "t", "]">>

\* JSON.stringify of null and of an object without own properties
JSONstringify(v) == IF v.t = "null" THEN <<"n", "u", "l", "l">> ELSE <<"{", "}">>

\* try { JSON.parse(text) } catch { leave as string }
JSONparseOrText(text) ==
    IF IsNumberText(text) THEN Num(TextToNum(text))
    ELSE IF text = <<"n", "u", "l", "l">> THEN Null
    ELSE IF text = <<"{", "}">> THEN EmptyObject
    ELSE IF text = <<"t", "r", "u", "e">> THEN Bool(TRUE)
    ELSE IF text = <<"f", "a", "l", "s", "e">> THEN Bool(FALSE)
    ELSE Str(text)

IsWhitespace(c) == c \in {" ", "\t", "\n"}

RECURSIVE DropWhitespace(_)
DropWhitespace(text) ==
    IF text # <<>> /\ IsWhitespace(Head(text)) THEN DropWhitespace(Tail(text)) ELSE text

\* text.replace(/\s+/g, "_"): every run of whitespace becomes one underscore
RECURSIVE ReplaceWhitespace(_)
ReplaceWhitespace(text) ==
    IF text = <<>> THEN <<>>
    ELSE IF IsWhitespace(Head(text))
         THEN <<"_">> \o ReplaceWhitespace(DropWhitespace(Tail(text)))
         ELSE <<Head(text)>> \o ReplaceWhitespace(Tail(text))

\* JavaScript truthiness
Truthy(v) ==
    CASE v.t \in {"undefined", "null", "absent"} -> FALSE
      [] v.t = "string" -> v.s # <<>>
      [] v.t \in {"number", "boolean"} -> v.n # 0
      [] OTHER -> TRUE

-----------------------------------------------------------------------------
(* MemoryDB.shortTerm (db/memory-system.js) *)

\* typeof value === "object" ? JSON.stringify(value) : String(value)
valueStr(value) == IF TypeofObject(value) THEN JSONstringify(value) ELSE ToText(value)

stmRows(table, key) == {row \in table : row.key = key}

\* shortTerm.get(key): null without a row; a row past its expiry is removed
\* and null returned; else the value is parsed as JSON when it can be, the
\* row's timestamp is set to the current time and the value returned
shortTermGet(table, key, t) ==
    IF stmRows(table, key) = {} THEN [table |-> table, ret |-> Null]
    ELSE LET row == CHOOSE row \in stmRows(table, key) : TRUE
         IN IF row.expiry_time # 0 /\ t > row.expiry_time
            THEN [table |-> table \ {row}, ret |-> Null]
            ELSE [table |-> (table \ {row}) \cup {[row EXCEPT !.timestamp = t]},
                  ret |-> JSONparseOrText(row.value)]

\* shortTerm.store(key, value, {expiryTime}): UPDATE when this.get(key) is
\* truthy, else INSERT, which fails on the primary key when the key has a row;
\* the failure is caught and false returned
shortTermStore(table, key, value, expiryTime, t) ==
    LET existingEntry == shortTermGet(table, key, t)
        row == [key |-> key, value |-> valueStr(value), timestamp |-> t,
                expiry_time |-> expiryTime]
    IN IF Truthy(existingEntry.ret)
       THEN [table |-> (existingEntry.table \ stmRows(existingEntry.table, key)) \cup {row},
             ret |-> Bool(TRUE)]
       ELSE IF stmRows(existingEntry.table, key) # {}
            THEN [table |-> existingEntry.table, ret |-> Bool(FALSE)]
            ELSE [table |-> existingEntry.table \cup {row}, ret |-> Bool(TRUE)]

\* the stub db made when the database cannot be opened: prepare() gives a
\* statement whose run() does nothing and returns undefined, whose get()
\* returns null and whose all() returns []
stubGet == Null

\* shortTerm.get on either db: the stub statement finds no row
shortTermGetOn(conn, table, key, t) ==
    IF conn = "stub" THEN [table |-> table, ret |-> stubGet]
    ELSE shortTermGet(table, key, t)

\* shortTerm.store on either db: on the stub this.get(key) is null, the INSERT
\* statement runs to no effect and true is returned
shortTermStoreOn(conn, table, key, value, expiryTime, t) ==
    IF conn = "stub" THEN [table |-> table, ret |-> Bool(TRUE)]
    ELSE shortTermStore(table, key, value, expiryTime, t)

ShortTermStore(key, value, expiryTime) ==
    /\ db = "MemoryDB"
    /\ LET done == shortTermStoreOn(connection, short_term_memory, key, value,
                                    expiryTime, now)
       IN /\ short_term_memory' = done.table
          /\ lastCall' = [op |-> "shortTerm.store", key |-> key, arg |-> value,
                          ret |-> done.ret]
    /\ UNCHANGED <<now, stmVars, semVars, epiVars, ctlVars, turnVars, summaries,
                   connection, episodic_memory, padVars>>

ShortTermGet(key) ==
    /\ db = "MemoryDB"
    /\ LET done == shortTermGetOn(connection, short_term_memory, key, now)
       IN /\ short_term_memory' = done.table
          /\ lastCall' = [op |-> "shortTerm.get", key |-> key, arg |-> Undefined,
                          ret |-> done.ret]
    /\ UNCHANGED <<now, stmVars, semVars, epiVars, ctlVars, turnVars, summaries,
                   connection, episodic_memory, padVars>>

-----------------------------------------------------------------------------
(* MemoryDB.semantic: knowledge nodes (db/memory-system.js) *)

\* better-sqlite3 binds numbers, strings and null; any other value makes the
\* statement throw
Bindable(v) == v.t \in {"string", "number", "null"}

\* a value a NOT NULL text column accepts
StoresAsText(v) == v.t \in {"string", "number"}

NoOptions == [id |-> <<>>, confidence |-> Undefined, source |-> Undefined]

\* `${category}_${topic}_${Date.now()}`.replace(/\s+/g, "_")
mintId(category, topic, t) ==
    ReplaceWhitespace(ToText(category) \o <<"_">> \o ToText(topic) \o <<"_">> \o NumToText(t))

\* typeof content === "object" ? JSON.stringify(content) : String(content)
contentStr(content) ==
    IF TypeofObject(content) THEN JSONstringify(content) ELSE ToText(content)

\* SELECT ... FROM semantic_knowledge WHERE category = ? AND topic = ?
knowledgeRows(table, category, topic) ==
    IF StoresAsText(category) /\ StoresAsText(topic)
    THEN {row \in table : row.category = ToText(category) /\ row.topic = ToText(topic)}
    ELSE {}

\* SELECT ... FROM semantic_knowledge WHERE id = ?
idRows(table, id) ==
    IF StoresAsText(id) THEN {row \in table : row.id = ToText(id)} ELSE {}

\* the row as its reader gets it: content parsed when it is JSON
ParsedRow(row) == [row EXCEPT !.content = JSONparseOrText(@)]

\* an updateLastAccessed that writes nothing
updateLastAccessed_Untouched(table, id, t) == table

\* updateLastAccessed: UPDATE semantic_knowledge SET last_accessed = ? WHERE id = ?
updateLastAccessed(table, id, t) ==
    {IF row.id = id THEN [row EXCEPT !.last_accessed = t] ELSE row : row \in table}

\* getKnowledge: the row found, null when there is none or the lookup threw
getKnowledge(table, category, topic) ==
    IF knowledgeRows(table, category, topic) = {} THEN Null
    ELSE ParsedRow(CHOOSE row \in knowledgeRows(table, category, topic) : TRUE)

\* the table after getKnowledge: the row found has been touched
afterGetKnowledge(table, category, topic, t) ==
    IF knowledgeRows(table, category, topic) = {} THEN table
    ELSE updateLastAccessed(table,
            (CHOOSE row \in knowledgeRows(table, category, topic) : TRUE).id, t)

\* getById: the row found, null when there is none or the lookup threw
getById(table, id) ==
    IF idRows(table, id) = {} THEN Null
    ELSE ParsedRow(CHOOSE row \in idRows(table, id) : TRUE)

afterGetById(table, id, t) ==
    IF idRows(table, id) = {} THEN table ELSE updateLastAccessed(table, ToText(id), t)

\* the characters of the texts stored, in the order of their codes
Alphabet ==
    <<" ", "0", "1", "2", "3", "4", "5", "6", "7", "8", "9", "C", "X", "_",
      "a", "b", "c", "d", "e", "f", "g", "h", "i", "j", "k", "l", "m", "n", "o",
      "p", "q", "r", "s", "t", "u", "v", "w", "x", "y", "z">>

CharCode(c) == CHOOSE i \in 1..Len(Alphabet) : Alphabet[i] = c

\* a < b under the BINARY collation of a TEXT column
RECURSIVE TextBefore(_, _)
TextBefore(a, b) ==
    IF b = <<>> THEN FALSE
    ELSE IF a = <<>> THEN TRUE
    ELSE IF Head(a) # Head(b) THEN CharCode(Head(a)) < CharCode(Head(b))
    ELSE TextBefore(Tail(a), Tail(b))

\* ORDER BY topic (the topics of one category differ from each other)
RECURSIVE OrderByTopic(_)
OrderByTopic(rows) ==
    IF rows = {} THEN <<>>
    ELSE LET first == CHOOSE row \in rows :
                         \A other \in rows \ {row} : TextBefore(row.topic, other.topic)
         IN <<first>> \o OrderByTopic(rows \ {first})

\* SELECT ... FROM semantic_knowledge WHERE category = ? ORDER BY topic
categoryRows(table, category) ==
    IF Bindable(category)
    THEN OrderByTopic({row \in table : /\ category # Null
                                       /\ row.category = ToText(category)})
    ELSE <<>>

\* getByCategory: the rows of the category, parsed; [] when the lookup threw
getByCategory(table, category) ==
    [i \in 1..Len(categoryRows(table, category)) |->
        ParsedRow(categoryRows(table, category)[i])]

\* storeKnowledge: UPDATE the row of (category, topic) when getKnowledge finds
\* one, INSERT otherwise; the id computed at the top is returned in both cases;
\* a statement that throws (a value that cannot be bound, NOT NULL, a taken
\* PRIMARY KEY) is caught and null returned
storeKnowledge(table, category, topic, content, options, t) ==
    LET id == IF options.id # <<>> THEN options.id ELSE mintId(category, topic, t)
        existing == knowledgeRows(table, category, topic)
        touched == afterGetKnowledge(table, category, topic, t)
        source == IF Truthy(options.source) THEN options.source ELSE Null
        confidence == IF Truthy(options.confidence) THEN options.confidence.n ELSE 1
    IN IF existing # {}
       THEN [table |-> {IF row.category = ToText(category) /\ row.topic = ToText(topic)
                        THEN [row EXCEPT !.content = contentStr(content),
                                         !.confidence = confidence,
                                         !.timestamp = t,
                                         !.source = source,
                                         !.metadata = Null]
                        ELSE row : row \in touched},
             ret |-> Str(id)]
       ELSE IF \/ ~StoresAsText(category) \/ ~StoresAsText(topic)
               \/ \E row \in table : row.id = id
            THEN [table |-> table, ret |-> Null]
            ELSE [table |-> table \cup
                      {[id |-> id, category |-> ToText(category), topic |-> ToText(topic),
                        content |-> contentStr(content), confidence |-> confidence,
                        timestamp |-> t, last_accessed |-> t, source |-> source,
                        metadata |-> Null]},
                  ret |-> Str(id)]

KCategories == {Str(<<"a", " ", "b">>), Str(<<"a", "_", "b">>)}
KTopics == {Str(<<"c">>), Str(<<"d">>)}
KContents == {Str(<<"x">>), Num(7)}
KOptions == {NoOptions, [NoOptions EXCEPT !.id = <<"k">>]}

\* storeKnowledge on a table of fewer than `cap` nodes (or on a pair it holds)
StoreKnowledgeWithin(cap, category, topic, content, options) ==
    /\ db = "MemoryDB"
    /\ Cardinality(semantic_knowledge) < cap
          \/ knowledgeRows(semantic_knowledge, category, topic) # {}
    /\ LET done == storeKnowledge(semantic_knowledge, category, topic, content, options, now)
       IN /\ semantic_knowledge' = done.table
          /\ lastCall' = [op |-> "storeKnowledge", key |-> <<category, topic>>,
                          arg |-> content, ret |-> done.ret]
    /\ UNCHANGED <<now, stmVars, registered, knowledge_relationships, memory_queries,
                 memVars, epiVars, ctlVars, turnVars, tblVars>>

StoreKnowledge(category, topic, content, options) ==
    StoreKnowledgeWithin(MaxNodes, category, topic, content, options)

GetKnowledge(category, topic) ==
    /\ db = "MemoryDB"
    /\ semantic_knowledge' = afterGetKnowledge(semantic_knowledge, category, topic, now)
    /\ lastCall' = [op |-> "getKnowledge", key |-> <<category, topic>>,
                    arg |-> Undefined,
                    ret |-> getKnowledge(semantic_knowledge, category, topic)]
    /\ UNCHANGED <<now, stmVars, registered, knowledge_relationships, memory_queries,
                 memVars, epiVars, ctlVars, turnVars, tblVars>>

GetById(id) ==
    /\ db = "MemoryDB"
    /\ semantic_knowledge' = afterGetById(semantic_knowledge, id, now)
    /\ lastCall' = [op |-> "getById", key |-> id, arg |-> Undefined,
                    ret |-> getById(semantic_knowledge, id)]
    /\ UNCHANGED <<now, stmVars, registered, knowledge_relationships, memory_queries,
                 memVars, epiVars, ctlVars, turnVars, tblVars>>

-----------------------------------------------------------------------------
(* MemoryDB.episodic (db/memory-system.js) *)

NoEpisodeOptions == [conversationId |-> Undefined, importance |-> 0, metadata |-> Undefined]

\* episodic.store(content, options): the row is inserted under the next
\* AUTOINCREMENT id and the id returned; null when the statement throws
\* (conversationId is undefined without the option and cannot be bound) and
\* on the stub, whose run() returns undefined, so that result.lastInsertRowid
\* throws
episodicStore(conn, table, content, options, t) ==
    IF conn = "stub" \/ ~Bindable(options.conversationId)
    THEN [table |-> table, ret |-> Null]
    ELSE [table |-> Append(table,
                       [id |-> Len(table) + 1,
                        conversation_id |-> ToText(options.conversationId),
                        type |-> <<"c", "o", "n", "v", "e", "r", "s", "a", "t", "i", "o", "n">>,
                        content |-> contentStr(content), timestamp |-> t,
                        importance |-> IF options.importance # 0 THEN options.importance
                                       ELSE 1,
                        related_ids |-> Null,
                        metadata |-> IF Truthy(options.metadata)
                                     THEN Str(JSONstringify(options.metadata))
                                     ELSE Null]),
          ret |-> Num(Len(table) + 1)]

\* episodic.get(id): the row with content and metadata parsed where they are
\* JSON, left as text where not; null without a row and on the stub
episodicGet(conn, table, id) ==
    IF conn = "stub" \/ id.t # "number" \/ ~(id.n \in 1..Len(table)) THEN Null
    ELSE [table[id.n] EXCEPT
             !.content = JSONparseOrText(@),
             !.metadata = IF Truthy(@) THEN JSONparseOrText(@.s) ELSE @]

EpisodicStore(content, options) ==
    /\ db = "MemoryDB"
    /\ Len(episodic_memory) < MaxEpisodes
    /\ LET done == episodicStore(connection, episodic_memory, content, options, now)
       IN /\ episodic_memory' = done.table
          /\ lastCall' = [op |-> "episodic.store", key |-> "", arg |-> content,
                          ret |-> done.ret]
    /\ UNCHANGED <<now, stmVars, semVars, epiVars, ctlVars, turnVars, short_term_memory,
                   summaries, connection, padVars>>

EpisodicGet(id) ==
    /\ db = "MemoryDB"
    /\ lastCall' = [op |-> "episodic.get", key |-> "", arg |-> id,
                    ret |-> episodicGet(connection, episodic_memory, id)]
    /\ UNCHANGED <<now, stmVars, semVars, epiVars, ctlVars, turnVars, tblVars>>

-----------------------------------------------------------------------------
(* MemoryDB.semantic: relationships (db/memory-system.js) *)

\* SELECT ... FROM knowledge_relationships
\* WHERE source_id = ? AND target_id = ? AND relationship_type = ?
relationshipRows(rels, sourceId, targetId, relationshipType) ==
    IF StoresAsText(sourceId) /\ StoresAsText(targetId) /\ StoresAsText(relationshipType)
    THEN {rel \in rels : /\ rel.source_id = ToText(sourceId)
                         /\ rel.target_id = ToText(targetId)
                         /\ rel.relationship_type = ToText(relationshipType)}
    ELSE {}

\* options = {}
NoRelationOptions == [t |-> "object", strength |-> Undefined, metadata |-> Undefined]

\* createRelationship: false when getById finds no source or no target (both
\* lookups touch the row they find); otherwise UPDATE the row of the triple or
\* INSERT it under the next AUTOINCREMENT id, with options.strength || 1.0 and
\* the stringified options.metadata or null; a statement that throws gives false
createRelationship(table, rels, sourceId, targetId, relationshipType, options, t) ==
    LET touched == afterGetById(afterGetById(table, sourceId, t), targetId, t)
        existingRel == relationshipRows(rels, sourceId, targetId, relationshipType)
        strength == IF Truthy(options.strength) THEN options.strength.n ELSE 1
        metadata == IF Truthy(options.metadata)
                    THEN Str(JSONstringify(options.metadata)) ELSE Null
    IN IF getById(table, sourceId) = Null \/ getById(table, targetId) = Null
       THEN [table |-> touched, rels |-> rels, ret |-> Bool(FALSE)]
       ELSE IF existingRel # {}
       THEN [table |-> touched,
             rels |-> {IF rel \in existingRel
                       THEN [rel EXCEPT !.strength = strength, !.timestamp = t,
                                        !.metadata = metadata]
                       ELSE rel : rel \in rels},
             ret |-> Bool(TRUE)]
       ELSE IF StoresAsText(relationshipType)
            THEN [table |-> touched,
                  rels |-> rels \cup
                      {[id |-> Cardinality(rels) + 1, source_id |-> ToText(sourceId),
                        target_id |-> ToText(targetId),
                        relationship_type |-> ToText(relationshipType),
                        strength |-> strength, timestamp |-> t,
                        metadata |-> metadata]},
                  ret |-> Bool(TRUE)]
            ELSE [table |-> touched, rels |-> rels, ret |-> Bool(FALSE)]

\* the values of options.direction the code distinguishes
Outgoing == Str(<<"o", "u", "t", "g", "o", "i", "n", "g">>)
Incoming == Str(<<"i", "n", "c", "o", "m", "i", "n", "g">>)
Both == Str(<<"b", "o", "t", "h">>)

\* one row of the result: the columns of the relationship and two columns
\* named after the side the joined node is on
joinedRow(rel, side, node) ==
    [id |-> rel.id, source_id |-> rel.source_id, target_id |-> rel.target_id,
     relationship_type |-> rel.relationship_type, strength |-> rel.strength,
     timestamp |-> rel.timestamp, metadata |-> rel.metadata,
     side |-> side,
     category |-> IF node = Null THEN Null ELSE Str(node.category),
     topic |-> IF node = Null THEN Null ELSE Str(node.topic)]

\* LEFT JOIN semantic_knowledge ON id: the node, null when there is none
joinedNode(table, id) ==
    IF \E row \in table : row.id = id THEN CHOOSE row \in table : row.id = id ELSE Null

\* the SELECT of a direction that takes the edges of one side only
relationshipSelect_OutgoingOnly(table, rels, nodeId, options) ==
    LET id == ToText(nodeId)
        typed(rel) == \/ ~Truthy(options.relationshipType)
                      \/ rel.relationship_type = ToText(options.relationshipType)
    IN {joinedRow(rel, "target", joinedNode(table, rel.target_id)) :
           rel \in {x \in rels : /\ x.source_id = id
                                 /\ joinedNode(table, x.target_id) # Null
                                 /\ typed(x)}}

\* the SELECT built for options.direction: the inner JOIN of the outgoing and
\* the incoming query drops an edge whose other endpoint is no node; in the
\* query of both directions the appended AND binds tighter than the OR
relationshipSelect(table, rels, nodeId, options) ==
    LET id == ToText(nodeId)
        typed(rel) == \/ ~Truthy(options.relationshipType)
                      \/ rel.relationship_type = ToText(options.relationshipType)
    IN IF options.direction = Outgoing
       THEN {joinedRow(rel, "target", joinedNode(table, rel.target_id)) :
                rel \in {x \in rels : /\ x.source_id = id
                                      /\ joinedNode(table, x.target_id) # Null
                                      /\ typed(x)}}
       ELSE IF options.direction = Incoming
       THEN {joinedRow(rel, "source", joinedNode(table, rel.source_id)) :
                rel \in {x \in rels : /\ x.target_id = id
                                      /\ joinedNode(table, x.source_id) # Null
                                      /\ typed(x)}}
       ELSE {joinedRow(rel, "other",
                       IF rel.source_id = id THEN joinedNode(table, rel.target_id)
                       ELSE joinedNode(table, rel.source_id)) :
                rel \in {x \in rels : \/ x.source_id = id
                                      \/ x.target_id = id /\ typed(x)}}

\* ORDER BY kr.strength DESC, kr.timestamp DESC: every order of the rows the
\* clause allows (rows equal in both columns come in any order)
relationshipOrders(rows) ==
    {order \in [1..Cardinality(rows) -> rows] :
        /\ \A i, j \in 1..Cardinality(rows) : i # j => order[i] # order[j]
        /\ \A i, j \in 1..Cardinality(rows) :
              i < j => \/ order[i].strength > order[j].strength
                       \/ /\ order[i].strength = order[j].strength
                          /\ order[i].timestamp >= order[j].timestamp}

\* getRelationships: the rows selected, in one of the orders of the ORDER BY;
\* [] when the statement throws (a nodeId that cannot be bound)
getRelationships(table, rels, nodeId, options) ==
    IF StoresAsText(nodeId)
    THEN relationshipOrders(relationshipSelect(table, rels, nodeId, options))
    ELSE {<<>>}

-----------------------------------------------------------------------------
(* MEMORY_SYSTEM semantic functions of rules/303 (in memory) *)

basicCategories ==
    <<<<"p", "r", "o", "j", "e", "c", "t", "_", "s", "t", "r", "u", "c", "t", "u", "r", "e">>,
      <<"c", "o", "d", "e", "_", "p", "a", "t", "t", "e", "r", "n", "s">>,
      <<"u", "s", "e", "r", "_", "p", "r", "e", "f", "e", "r", "e", "n", "c", "e", "s">>,
      <<"t", "r", "o", "u", "b", "l", "e", "s", "h", "o", "o", "t", "i", "n", "g">>,
      <<"a", "r", "c", "h", "i", "t", "e", "c", "t", "u", "r", "e">>,
      <<"a", "p", "i", "_", "r", "e", "f", "e", "r", "e", "n", "c", "e">>,
      <<"f", "r", "a", "m", "e", "w", "o", "r", "k", "_", "k", "n", "o", "w", "l", "e", "d", "g", "e">>>>

\* semantic after the script ran: an empty object per basic category; the
\* topics are kept in the order their keys were created
InitSemantic ==
    [i \in 1..Len(basicCategories) |-> [topic |-> basicCategories[i], entries |-> <<>>]]

\* `sm_${Date.now()}_${Math.floor(Math.random() * 10000)}`
smId(t, r) == <<"s", "m", "_">> \o NumToText(t) \o <<"_">> \o NumToText(r)

\* `rel_${Date.now()}_${Math.floor(Math.random() * 10000)}`
relId(t, r) == <<"r", "e", "l", "_">> \o NumToText(t) \o <<"_">> \o NumToText(r)

HasTopic(sem, topic) == \E i \in 1..Len(sem) : sem[i].topic = topic

\* the knowledge objects of semantic[topic], in insertion order
topicEntries(sem, topic) ==
    IF HasTopic(sem, topic)
    THEN sem[CHOOSE i \in 1..Len(sem) : sem[i].topic = topic].entries
    ELSE <<>>

\* semantic[topic][knowledge.id] = knowledge
putEntry(entries, knowledge) ==
    IF \E i \in 1..Len(entries) : entries[i].id = knowledge.id
    THEN [i \in 1..Len(entries) |->
             IF entries[i].id = knowledge.id THEN knowledge ELSE entries[i]]
    ELSE Append(entries, knowledge)

\* storeKnowledge(topic, knowledge) of rules/303: id and timestamp are filled
\* in when missing, the object is stored under semantic[topic][id], the id returned
memStoreKnowledge(sem, topic, knowledge, t, r) ==
    LET stamped == [knowledge EXCEPT
                       !.id = IF @ = <<>> THEN smId(t, r) ELSE @,
                       !.timestamp = IF @ = 0 THEN t ELSE @]
        withTopic == IF HasTopic(sem, topic) THEN sem
                     ELSE Append(sem, [topic |-> topic, entries |-> <<>>])
    IN [sem |-> [i \in 1..Len(withTopic) |->
                    IF withTopic[i].topic = topic
                    THEN [withTopic[i] EXCEPT !.entries = putEntry(@, stamped)]
                    ELSE withTopic[i]],
        ret |-> Str(stamped.id)]

\* getKnowledgeById: the object stored under the id in the first topic that
\* has one, else null
getKnowledgeById(sem, id) ==
    LET holds(i) == \E j \in 1..Len(sem[i].entries) : sem[i].entries[j].id = ToText(id)
    IN IF \E i \in 1..Len(sem) : holds(i)
       THEN LET i == CHOOSE i \in 1..Len(sem) : holds(i) /\ \A k \in 1..(i - 1) : ~holds(k)
            IN sem[i].entries[CHOOSE j \in 1..Len(sem[i].entries) :
                                 sem[i].entries[j].id = ToText(id)]
       ELSE Null

\* createRelationship of rules/303: the edge is pushed, its id returned
memCreateRelationship(rels, sourceId, targetId, relationshipType, t, r) ==
    [rels |-> Append(rels, [id |-> relId(t, r), source_id |-> sourceId,
                            target_id |-> targetId,
                            relationship_type |-> relationshipType, timestamp |-> t]),
     ret |-> Str(relId(t, r))]

MemTopics == {<<"g", "o", "a", "l">>}
MemKnowledge ==
    {[id |-> <<>>, category |-> <<"n", "o", "t", "e">>, content |-> Str(<<"x">>),
      importance |-> <<>>, source |-> <<>>, timestamp |-> 0]}

\* MEMORY_SYSTEM.storeKnowledge(topic, knowledge) as rules/303 registers it
MemStoreKnowledge(topic, knowledge, r) ==
    /\ registered = "rules"
    /\ Len(topicEntries(semantic, topic)) < MaxNodes
    /\ LET done == memStoreKnowledge(semantic, topic, knowledge, now, r)
       IN /\ semantic' = done.sem
          /\ lastCall' = [op |-> "storeKnowledge", key |-> topic,
                          arg |-> knowledge.content, ret |-> done.ret]
    /\ UNCHANGED <<now, stmVars, registered, dbVars, knowledgeRelationships, epiVars, ctlVars, turnVars, tblVars>>

RelTypes == {Str(<<"d", "e", "p", "e", "n", "d", "s", "_", "o", "n">>)}

\* MEMORY_SYSTEM.createRelationship: the function of the script that
\* registered first
CreateRelationship(sourceId, targetId, relationshipType, options, r) ==
    /\ IF registered = "MemoryDB"
       THEN LET done == createRelationship(semantic_knowledge, knowledge_relationships,
                                           sourceId, targetId, relationshipType,
                                           options, now)
            IN /\ Cardinality(done.rels) <= MaxRels
               /\ semantic_knowledge' = done.table
               /\ knowledge_relationships' = done.rels
               /\ lastCall' = [op |-> "createRelationship",
                               key |-> <<sourceId, targetId>>,
                               arg |-> [relationshipType |-> relationshipType,
                                        options |-> options],
                               ret |-> done.ret]
               /\ UNCHANGED <<memory_queries, knowledgeRelationships>>
       ELSE LET done == memCreateRelationship(knowledgeRelationships, sourceId, targetId,
                                              relationshipType, now, r)
            IN /\ Len(done.rels) <= MaxRels
               /\ knowledgeRelationships' = done.rels
               /\ lastCall' = [op |-> "createRelationship",
                               key |-> <<sourceId, targetId>>,
                               arg |-> [relationshipType |-> relationshipType,
                                        options |-> options],
                               ret |-> done.ret]
               /\ UNCHANGED dbVars
    /\ UNCHANGED <<now, stmVars, registered, semantic, epiVars, ctlVars, turnVars, tblVars>>

\* MemoryDB.semantic.getRelationships(nodeId, options)
GetRelationships(nodeId, options) ==
    /\ db = "MemoryDB"
    /\ \E rows \in getRelationships(semantic_knowledge, knowledge_relationships,
                                    nodeId, options) :
          lastCall' = [op |-> "getRelationships", key |-> nodeId, arg |-> options,
                       ret |-> Arr(rows)]
    /\ UNCHANGED <<now, stmVars, semVars, epiVars, ctlVars, turnVars, tblVars>>

-----------------------------------------------------------------------------
(* Text search *)

UpperCase == <<"A", "B", "C", "D", "E", "F", "G", "H", "I", "J", "K", "L", "M">>
                 \o <<"N", "O", "P", "Q", "R", "S", "T", "U", "V", "W", "X", "Y", "Z">>
LowerCase == <<"a", "b", "c", "d", "e", "f", "g", "h", "i", "j", "k", "l", "m">>
                 \o <<"n", "o", "p", "q", "r", "s", "t", "u", "v", "w", "x", "y", "z">>

toLowerCaseChar(c) ==
    IF \E i \in 1..26 : UpperCase[i] = c
    THEN LowerCase[CHOOSE i \in 1..26 : UpperCase[i] = c]
    ELSE c

toLowerCase(text) == [i \in 1..Len(text) |-> toLowerCaseChar(text[i])]

\* \w
IsWordChar(c) ==
    \/ \E i \in 1..26 : UpperCase[i] = c \/ LowerCase[i] = c
    \/ \E d \in 1..10 : Digit[d] = c
    \/ c = "_"

\* .replace(/[^\w\s]/g, '')
StripPunctuation(text) == SelectSeq(text, LAMBDA c : IsWordChar(c) \/ IsWhitespace(c))

RECURSIVE TakeWord(_)
TakeWord(text) ==
    IF text = <<>> \/ IsWhitespace(Head(text)) THEN <<>>
    ELSE <<Head(text)>> \o TakeWord(Tail(text))

RECURSIVE DropWord(_)
DropWord(text) ==
    IF text = <<>> \/ IsWhitespace(Head(text)) THEN text ELSE DropWord(Tail(text))

\* the non-empty pieces of .split(/\s+/) (the empty ones never pass a length filter)
RECURSIVE SplitWords(_)
SplitWords(text) ==
    IF DropWhitespace(text) = <<>> THEN <<>>
    ELSE <<TakeWord(DropWhitespace(text))>> \o SplitWords(DropWord(DropWhitespace(text)))

\* enrichContext: the keywords of a query
keywords(query) ==
    SelectSeq(SplitWords(StripPunctuation(toLowerCase(query))), LAMBDA word : Len(word) > 3)

\* text.includes(part)
Includes(text, part) ==
    \E i \in 0..(Len(text) - Len(part)) : SubSeq(text, i + 1, i + Len(part)) = part

\* text.substring(0, n)
Substring(text, n) == SubSeq(text, 1, Min(n, Len(text)))

\* text LIKE '%pattern%': letters match in either case, "_" matches any character
LikeIncludes(text, pattern) ==
    \E i \in 0..(Len(text) - Len(pattern)) :
        \A j \in 1..Len(pattern) :
            \/ pattern[j] = "_"
            \/ toLowerCaseChar(text[i + j]) = toLowerCaseChar(pattern[j])

\* the first n elements
Take(list, n) == SubSeq(list, 1, Min(n, Len(list)))

-----------------------------------------------------------------------------
(* MemoryDB.semantic.search and the query log (db/memory-system.js) *)

\* ORDER BY confidence DESC, last_accessed DESC; rows that tie come in the
\* order they were inserted
RanksBefore(a, b) ==
    \/ a.confidence > b.confidence
    \/ a.confidence = b.confidence /\ a.last_accessed > b.last_accessed
    \/ a.confidence = b.confidence /\ a.last_accessed = b.last_accessed
          /\ a.timestamp < b.timestamp

RECURSIVE RankRows(_)
RankRows(rows) ==
    IF rows = {} THEN <<>>
    ELSE LET first == CHOOSE row \in rows : \A other \in rows : ~RanksBefore(other, row)
         IN <<first>> \o RankRows(rows \ {first})

\* SELECT ... WHERE topic LIKE ? OR content LIKE ? ORDER BY ... LIMIT ?, and
\* with a truthy options.category (a string here)
\* WHERE topic LIKE ? OR content LIKE ? AND category = ?, in which AND binds
\* tighter than OR
searchRows(table, query, category, limit) ==
    Take(RankRows({row \in table :
                      \/ LikeIncludes(row.topic, query)
                      \/ /\ LikeIncludes(row.content, query)
                         /\ Truthy(category) => row.category = ToText(category)}),
         limit)

\* logQuery followed by updateQueryResults: the row is appended with count 0,
\* then the rows of this query with the latest timestamp get the result count
loggedQuery(log, query, resultCount, t) ==
    LET appended == Append(log, [memory_type |-> "semantic", query |-> query,
                                 timestamp |-> t, result_count |-> 0, duration_ms |-> 0])
    IN [i \in 1..Len(appended) |->
           IF appended[i].query = query /\ appended[i].timestamp = t
           THEN [appended[i] EXCEPT !.result_count = resultCount, !.duration_ms = 0]
           ELSE appended[i]]

\* the rows a search touches: updateLastAccessed on every result
RECURSIVE touchAll(_, _, _)
touchAll(table, rows, t) ==
    IF rows = <<>> THEN table
    ELSE touchAll(updateLastAccessed(table, Head(rows).id, t), Tail(rows), t)

\* search(query, options): options.limit || 10 results, parsed
search(table, log, query, category, optionsLimit, t) ==
    LET rows == searchRows(table, query, category,
                           IF optionsLimit # 0 THEN optionsLimit ELSE 10)
    IN [table |-> touchAll(table, rows, t),
        log |-> loggedQuery(log, query, Len(rows), t),
        ret |-> [i \in 1..Len(rows) |-> ParsedRow(rows[i])]]

\* MemoryDB.semantic.getByCategory(category): every row returned is touched
GetByCategory(category) ==
    /\ db = "MemoryDB"
    /\ semantic_knowledge' = touchAll(semantic_knowledge,
                                      categoryRows(semantic_knowledge, category), now)
    /\ lastCall' = [op |-> "getByCategory", key |-> category, arg |-> Undefined,
                    ret |-> Arr(getByCategory(semantic_knowledge, category))]
    /\ UNCHANGED <<now, stmVars, registered, knowledge_relationships, memory_queries,
                 memVars, epiVars, ctlVars, turnVars, tblVars>>

\* MemoryDB.semantic.search(query, {category, limit}); limit 0
\* stands for an omitted limit as well, both give LIMIT 10
Search(query, category, limit) ==
    /\ db = "MemoryDB"
    /\ Len(memory_queries) < MaxQueries
    /\ LET done == search(semantic_knowledge, memory_queries, query, category, limit, now)
       IN /\ semantic_knowledge' = done.table
          /\ memory_queries' = done.log
          /\ lastCall' = [op |-> "search", key |-> Str(query),
                          arg |-> [t |-> "object", category |-> category,
                                   limit |-> limit],
                          ret |-> Arr(done.ret)]
    /\ UNCHANGED <<now, stmVars, registered, knowledge_relationships, memVars,
                 epiVars, ctlVars, turnVars, tblVars>>

-----------------------------------------------------------------------------
(* MEMORY_SYSTEM.searchKnowledge of rules/303 *)

\* every knowledge object with its topic, topics and ids in insertion order
RECURSIVE allEntries(_)
allEntries(sem) ==
    IF sem = <<>> THEN <<>>
    ELSE [j \in 1..Len(Head(sem).entries) |->
             [topic |-> Head(sem).topic, knowledge |-> Head(sem).entries[j]]]
         \o allEntries(Tail(sem))

\* searchKnowledge(query, limit): the first `limit` objects whose string
\* content or whose topic includes the query, case folded
memSearchKnowledge(sem, query, limit) ==
    Take(SelectSeq(allEntries(sem),
                   LAMBDA e : \/ /\ e.knowledge.content.t = "string"
                                 /\ e.knowledge.content.s # <<>>
                                 /\ Includes(toLowerCase(e.knowledge.content.s),
                                             toLowerCase(query))
                              \/ Includes(toLowerCase(e.topic), toLowerCase(query))),
         IF limit >= 1 THEN limit ELSE 1)

-----------------------------------------------------------------------------
(* Episodic memory (rules/001-system-core.mdc) *)

\* `session_${Date.now()}`
sessionId(t) == <<"s", "e", "s", "s", "i", "o", "n", "_">> \o NumToText(t)

\* globalThis.MEMORY_SYSTEM.getContext("session_id") || `session_${Date.now()}`
currentSession(ctx, t) ==
    IF Truthy(getContext(ctx, "session_id")) THEN ToText(getContext(ctx, "session_id"))
    ELSE sessionId(t)

\* storeConversation({role, content, timestamp, metadata}) with a string
\* content: the simulated db appends the row under id length + 1 and keeps
\* JSON.stringify of the already stringified metadata (two layers of JSON
\* over an object, here metaType <<>>) or of String(metadata) (one layer over
\* a metadata text, here a text that is no JSON itself);
\* when MEMORY_SYSTEM.db is MemoryDB, db.run is no function, the TypeError is
\* caught and null returned
storeConversation(convs, dbKind, ctx, role, content, metaType, t) ==
    IF dbKind = "simulated"
    THEN [convs |-> Append(convs, [id |-> Len(convs) + 1,
                                   session_id |-> currentSession(ctx, t),
                                   role |-> role, content |-> content, timestamp |-> t,
                                   metadata |-> [layers |-> IF metaType = <<>> THEN 2
                                                            ELSE 1,
                                                 type |-> metaType]]),
          ret |-> Num(Len(convs) + 1)]
    ELSE [convs |-> convs, ret |-> Null]

\* results.sort((a, b) => b.timestamp - a.timestamp), stable
RECURSIVE InsertByTimestamp(_, _)
InsertByTimestamp(sorted, conv) ==
    IF sorted = <<>> THEN <<conv>>
    ELSE IF Head(sorted).timestamp >= conv.timestamp
         THEN <<Head(sorted)>> \o InsertByTimestamp(Tail(sorted), conv)
         ELSE <<conv>> \o sorted

RECURSIVE SortByTimestampDesc(_)
SortByTimestampDesc(list) ==
    IF list = <<>> THEN <<>>
    ELSE InsertByTimestamp(SortByTimestampDesc(SubSeq(list, 1, Len(list) - 1)),
                           list[Len(list)])

\* try { conv.metadata = JSON.parse(conv.metadata) } catch { conv.metadata = {} }
\* one layer of JSON comes off; parsing what is already an object, or a text
\* that is no JSON, throws and leaves the object {} (type <<>>)
parseMetadata(metadata) ==
    IF metadata.layers > 0 THEN [metadata EXCEPT !.layers = @ - 1]
    ELSE [layers |-> 0, type |-> <<>>]

\* getRecentConversations(count): the `count` latest rows; their metadata is
\* parsed in place, on the objects the simulated db holds; [] when db.all is
\* no function
getRecentConversations(convs, dbKind, count) ==
    IF dbKind = "simulated"
    THEN LET found == IF count # 0 THEN Take(SortByTimestampDesc(convs), count)
                      ELSE SortByTimestampDesc(convs)
             ids == {found[i].id : i \in 1..Len(found)}
         IN [convs |-> [i \in 1..Len(convs) |->
                          IF convs[i].id \in ids
                          THEN [convs[i] EXCEPT !.metadata = parseMetadata(@)]
                          ELSE convs[i]],
             ret |-> [i \in 1..Len(found) |->
                        [found[i] EXCEPT !.metadata = parseMetadata(@)]]]
    ELSE [convs |-> convs, ret |-> <<>>]

\* list.slice(from, to) with 0 <= from <= to
Slice(list, from, to) == SubSeq(list, from + 1, Min(to, Len(list)))

\* the limit db.all falls back to: params.limit || 50
fallbackLimit == 50

\* db.all of the simulated database on a conversations query: each filter
\* applies when its parameter is truthy, the rows are sorted by timestamp
\* descending, and they are sliced when offset or limit is truthy
allConversations(convs, params) ==
    LET results ==
            SelectSeq(convs, LAMBDA c :
                /\ params.session_id # <<>> => c.session_id = params.session_id
                /\ params.role # "" => c.role = params.role
                /\ params.start_time # 0 => c.timestamp >= params.start_time
                /\ params.end_time # 0 => c.timestamp <= params.end_time)
        sorted == SortByTimestampDesc(results)
    IN IF params.offset # 0 \/ params.limit # 0
       THEN Slice(sorted, params.offset,
                  params.offset + (IF params.limit # 0 THEN params.limit
                                   ELSE fallbackLimit))
       ELSE sorted

\* getConversations({session_id, role, start_time, end_time, limit, offset}):
\* the rows db.all returns, their metadata parsed in place, on the objects the
\* simulated db holds; [] when db.all is no function; a null filter is <<>>,
\* "" or 0
getConversations(convs, dbKind, params) ==
    IF dbKind = "simulated"
    THEN LET found == allConversations(convs, params)
             ids == {found[i].id : i \in 1..Len(found)}
         IN [convs |-> [i \in 1..Len(convs) |->
                          IF convs[i].id \in ids
                          THEN [convs[i] EXCEPT !.metadata = parseMetadata(@)]
                          ELSE convs[i]],
             ret |-> [i \in 1..Len(found) |->
                        [found[i] EXCEPT !.metadata = parseMetadata(@)]]]
    ELSE [convs |-> convs, ret |-> <<>>]

GetConversations(params) ==
    /\ pc = "idle"
    /\ LET done == getConversations(conversations, db, params)
       IN /\ conversations' = done.convs
          /\ lastCall' = [op |-> "getConversations", key |-> "", arg |-> params,
                          ret |-> Arr(done.ret)]
    /\ UNCHANGED <<now, stmVars, semVars, db, ctlVars, turnVars, tblVars>>

\* db.run of the simulated database on INSERT INTO conversation_summaries: the
\* row is pushed under the id length + 1
insertSummary(sums, params) ==
    Append(sums, [id |-> Len(sums) + 1, session_id |-> params.session_id,
                  summary |-> params.summary, start_time |-> params.start_time,
                  end_time |-> params.end_time, message_count |-> params.message_count])

\* storeSummary: the id of the row inserted; null when db.run throws (MemoryDB
\* has no run)
storeSummary(sums, dbKind, params) ==
    IF dbKind = "simulated"
    THEN [summaries |-> insertSummary(sums, params), ret |-> Num(Len(sums) + 1)]
    ELSE [summaries |-> sums, ret |-> Null]

\* db.get of the simulated database on a conversation_summaries query:
\* this.summaries.find(s => s.session_id === params.session_id), the first row
\* of the session in storage order, undefined when there is none
findSummary(sums, session_id) ==
    IF \E i \in 1..Len(sums) : sums[i].session_id = session_id
    THEN sums[CHOOSE i \in 1..Len(sums) :
                 /\ sums[i].session_id = session_id
                 /\ \A j \in 1..(i - 1) : sums[j].session_id # session_id]
    ELSE Undefined

\* getSessionSummary: what db.get returns; null when db.get throws (MemoryDB
\* has no get)
getSessionSummary(sums, dbKind, session_id) ==
    IF dbKind = "simulated" THEN findSummary(sums, session_id) ELSE Null

StoreSummary(params) ==
    /\ Len(summaries) < MaxSummaries
    /\ LET done == storeSummary(summaries, db, params)
       IN /\ summaries' = done.summaries
          /\ lastCall' = [op |-> "storeSummary", key |-> Str(params.session_id),
                          arg |-> params, ret |-> done.ret]
    /\ UNCHANGED <<now, stmVars, semVars, epiVars, ctlVars, turnVars, short_term_memory,
                   connection, episodic_memory, padVars>>

GetSessionSummary(session_id) ==
    /\ lastCall' = [op |-> "getSessionSummary", key |-> Str(session_id),
                    arg |-> Undefined,
                    ret |-> getSessionSummary(summaries, db, session_id)]
    /\ UNCHANGED <<now, stmVars, semVars, epiVars, ctlVars, turnVars, tblVars>>

\* the words extractTopics never counts
commonWords ==
    {<<"t", "h", "e">>, <<"a", "n", "d">>, <<"a">>, <<"a", "n">>, <<"i", "n">>,
     <<"o", "n">>, <<"a", "t">>, <<"t", "o">>, <<"f", "o", "r">>,
     <<"w", "i", "t", "h">>, <<"o", "f">>, <<"i", "s">>, <<"a", "r", "e">>,
     <<"w", "a", "s">>, <<"w", "e", "r", "e">>}

\* .slice(0, 5)
maxTopics == 5

\* the words counted: longer than 3 characters and no common word
countedWords(text) ==
    SelectSeq(SplitWords(StripPunctuation(toLowerCase(text))),
              LAMBDA word : Len(word) > 3 /\ word \notin commonWords)

\* Object.entries(wordCounts): the words in the order of their first
\* occurrence (no word of the inputs is an integer key)
RECURSIVE wordKeys(_)
wordKeys(words) ==
    IF words = <<>> THEN <<>>
    ELSE LET before == wordKeys(SubSeq(words, 1, Len(words) - 1))
         IN IF \E i \in 1..Len(before) : before[i] = words[Len(words)] THEN before
            ELSE Append(before, words[Len(words)])

wordCount(words, word) == Cardinality({i \in 1..Len(words) : words[i] = word})

\* .sort((a, b) => b[1] - a[1]), stable
RECURSIVE InsertByCount(_, _, _)
InsertByCount(sorted, word, words) ==
    IF sorted = <<>> THEN <<word>>
    ELSE IF wordCount(words, Head(sorted)) >= wordCount(words, word)
         THEN <<Head(sorted)>> \o InsertByCount(Tail(sorted), word, words)
         ELSE <<word>> \o sorted

RECURSIVE SortByCount(_, _)
SortByCount(keys, words) ==
    IF keys = <<>> THEN <<>>
    ELSE InsertByCount(SortByCount(SubSeq(keys, 1, Len(keys) - 1), words),
                       keys[Len(keys)], words)

\* extractTopics(text): the five most frequent counted words
extractTopics(text) ==
    Take(SortByCount(wordKeys(countedWords(text)), countedWords(text)), maxTopics)

\* conversations.map(c => c.content).join(" ")
RECURSIVE joinContents(_)
joinContents(episodes) ==
    IF episodes = <<>> THEN <<>>
    ELSE IF Len(episodes) = 1 THEN episodes[1].content
    ELSE episodes[1].content \o <<" ">> \o joinContents(Tail(episodes))

\* the text summarizeConversations returns, by the values it is built from:
\* the template of the summary with its slots, or one of the two fixed texts
SummaryText(kind, messageCount, roleCounts, firstTimestamp, lastTimestamp, topics) ==
    [t |-> "string", kind |-> kind, messages |-> messageCount, roleCounts |-> roleCounts,
     firstTimestamp |-> firstTimestamp, lastTimestamp |-> lastTimestamp,
     topics |-> topics]

\* the objects the function is a method of: EpisodicMemory defines
\* extractTopics, MEMORY_SYSTEM is given seven of its methods (lines 938-944)
\* and extractTopics is none of them
hasExtractTopics(receiver) == receiver = "EpisodicMemory"

\* summarizeConversations with `this` bound to receiver: a call of
\* this.extractTopics that is no function throws inside the try
summarizeConversations(receiver, episodes) ==
    IF episodes = <<>>
    THEN SummaryText("No episodes to summarize.", 0, {}, 0, 0, <<>>)
    ELSE IF ~hasExtractTopics(receiver)
    THEN SummaryText("Error generating summary.", 0, {}, 0, 0, <<>>)
    ELSE LET n == Len(episodes)
             first == CHOOSE i \in 1..n :
                         \A j \in 1..n : episodes[i].timestamp <= episodes[j].timestamp
             last == CHOOSE i \in 1..n :
                         \A j \in 1..n : episodes[j].timestamp <= episodes[i].timestamp
         IN SummaryText("Conversation with", n,
                {<<role, Cardinality({i \in 1..n : episodes[i].role = role})>> :
                    role \in {episodes[i].role : i \in 1..n}},
                episodes[first].timestamp, episodes[last].timestamp,
                extractTopics(joinContents(episodes)))

\* MEMORY_SYSTEM.summarizeConversations(conversations)
SummarizeConversations(episodes) ==
    /\ lastCall' = [op |-> "summarizeConversations", key |-> "",
                    arg |-> Arr(episodes),
                    ret |-> summarizeConversations("MEMORY_SYSTEM", episodes)]
    /\ UNCHANGED <<now, stmVars, semVars, epiVars, ctlVars, turnVars, tblVars>>

-----------------------------------------------------------------------------
(* Memory controller (rules/105-cms-specialist-agent.mdc) *)

\* MEMORY_SYSTEM.storeKnowledge(topic, knowledge) as the controller calls it:
\* rules/303 stores the object under the topic; the function registered by
\* db/memory-system.js takes the topic for the category and the object for the
\* topic, with no content
MEMORY_SYSTEM_storeKnowledge(reg, table, sem, topic, knowledge, t, r) ==
    IF reg = "rules"
    THEN [table |-> table, sem |-> memStoreKnowledge(sem, topic, knowledge, t, r).sem]
    ELSE [table |-> storeKnowledge(table, Str(topic), EmptyObject, Undefined,
                                   NoOptions, t).table,
          sem |-> sem]

\* consolidateMemory: the loop over the working context
RECURSIVE storeImportant(_, _, _, _, _, _)
storeImportant(reg, table, sem, items, t, r) ==
    IF items = <<>> THEN [table |-> table, sem |-> sem]
    ELSE IF Head(items).importance >= 4
         THEN LET done == MEMORY_SYSTEM_storeKnowledge(reg, table, sem, Head(items).topic,
                             [id |-> <<>>,
                              category |-> <<"w", "o", "r", "k", "i", "n", "g", "_", "c", "o", "n", "t", "e", "x", "t">>,
                              content |-> Str(Head(items).details),
                              importance |-> IF Head(items).importance >= 5
                                             THEN <<"h", "i", "g", "h">>
                                             ELSE <<"m", "e", "d", "i", "u", "m">>,
                              source |-> <<"s", "h", "o", "r", "t", "_", "t", "e", "r", "m", "_", "m", "e", "m", "o", "r", "y">>,
                              timestamp |-> t], t, r.first)
              IN storeImportant(reg, done.table, done.sem, Tail(items), t,
                                [r EXCEPT !.first = @ + r.step])
         ELSE storeImportant(reg, table, sem, Tail(items), t, r)

\* consolidateMemory: the session summary goes to episodic memory when
\* conversation_summary is set, the items of the working context with
\* importance >= 4 go to storeKnowledge
consolidateMemory(reg, dbKind, ctx, wc, convs, table, sem, t, r) ==
    LET summary == getContext(ctx, "conversation_summary")
        stored == storeImportant(reg, table, sem, wc, t, r)
    IN [convs |-> IF Truthy(summary)
                  THEN storeConversation(convs, dbKind, ctx, "system",
                          <<"S", "e", "s", "s", "i", "o", "n", " ", "s", "u", "m", "m", "a", "r", "y", ":", " ">> \o ToText(summary),
                          <<"s", "u", "m", "m", "a", "r", "y">>, t).convs
                  ELSE convs,
        table |-> stored.table,
        sem |-> stored.sem]

CodeWords == {<<"f", "u", "n", "c", "t", "i", "o", "n">>, <<"c", "l", "a", "s", "s">>, <<"v", "a", "r", "i", "a", "b", "l", "e">>}
ErrorWords == {<<"e", "r", "r", "o", "r">>, <<"b", "u", "g">>, <<"i", "s", "s", "u", "e">>}

\* extractKnowledge: the loop over the recent conversations
RECURSIVE extractFrom(_, _, _, _, _, _)
extractFrom(reg, table, sem, rows, t, r) ==
    IF rows = <<>> THEN [table |-> table, sem |-> sem]
    ELSE IF Head(rows).role = "system" \/ Head(rows).content = <<>>
         THEN extractFrom(reg, table, sem, Tail(rows), t, r)
         ELSE LET code == IF \E word \in CodeWords : Includes(Head(rows).content, word)
                          THEN MEMORY_SYSTEM_storeKnowledge(reg, table, sem,
                                  <<"c", "o", "d", "e", "_", "p", "a", "t", "t", "e", "r", "n", "s">>,
                                  [id |-> <<>>, category |-> <<"c", "o", "d", "e", "_", "s", "n", "i", "p", "p", "e", "t", "s">>,
                                   content |-> Str(<<"C", "o", "d", "e", " ", "d", "i", "s", "c", "u", "s", "s", "i", "o", "n", ":", " ">>
                                       \o Substring(Head(rows).content, 100)
                                       \o <<".", ".", ".">>),
                                   importance |-> <<"m", "e", "d", "i", "u", "m">>,
                                   source |-> <<"c", "o", "n", "v", "e", "r", "s", "a", "t", "i", "o", "n">>,
                                   timestamp |-> t], t, r.first)
                          ELSE [table |-> table, sem |-> sem]
                  errs == IF \E word \in ErrorWords : Includes(Head(rows).content, word)
                          THEN MEMORY_SYSTEM_storeKnowledge(reg, code.table, code.sem,
                                  <<"t", "r", "o", "u", "b", "l", "e", "s", "h", "o", "o", "t", "i", "n", "g">>,
                                  [id |-> <<>>, category |-> <<"e", "r", "r", "o", "r", "s">>,
                                   content |-> Str(<<"E", "r", "r", "o", "r", " ", "d", "i", "s", "c", "u", "s", "s", "i", "o", "n", ":", " ">>
                                       \o Substring(Head(rows).content, 100)
                                       \o <<".", ".", ".">>),
                                   importance |-> <<"h", "i", "g", "h">>,
                                   source |-> <<"c", "o", "n", "v", "e", "r", "s", "a", "t", "i", "o", "n">>,
                                   timestamp |-> t], t, r.first + r.step)
                          ELSE code
              IN extractFrom(reg, errs.table, errs.sem, Tail(rows), t,
                             [r EXCEPT !.first = @ + 2 * r.step])

\* extractKnowledge: false when there is no recent conversation, else the
\* code and error discussions among the 20 latest go to storeKnowledge
extractKnowledge(reg, dbKind, convs, table, sem, t, r) ==
    LET recent == getRecentConversations(convs, dbKind, 20)
        stored == extractFrom(reg, table, sem, recent.ret, t, r)
    IN IF recent.ret = <<>>
       THEN [convs |-> recent.convs, table |-> table, sem |-> sem, ret |-> Bool(FALSE)]
       ELSE [convs |-> recent.convs, table |-> stored.table, sem |-> stored.sem,
             ret |-> Bool(TRUE)]

\* enrichContext: searchKnowledge(keyword, 2) for every keyword; the function
\* registered by db/memory-system.js reads 2 as its options, finds no limit
\* in it and searches with limit 10
RECURSIVE searchAll(_, _, _, _, _, _)
searchAll(reg, table, log, sem, words, t) ==
    IF words = <<>> THEN [table |-> table, log |-> log, ret |-> <<>>]
    ELSE IF reg = "rules"
         THEN [table |-> table, log |-> log,
               ret |-> memSearchKnowledge(sem, Head(words), 2)
                          \o searchAll(reg, table, log, sem, Tail(words), t).ret]
         ELSE LET one == search(table, log, Head(words), Undefined, 0, t)
                  rest == searchAll(reg, one.table, one.log, sem, Tail(words), t)
              IN [table |-> rest.table, log |-> rest.log, ret |-> one.ret \o rest.ret]

\* enrichContext(query) for a string query: the context object that is stored
\* under "enriched_context" and returned; its workingContext is the
\* working_context array itself and is not copied here
enrichContext(reg, dbKind, ctx, convs, table, log, sem, query, t) ==
    LET recent == getRecentConversations(convs, dbKind, 5)
        found == searchAll(reg, table, log, sem, keywords(query), t)
        enrichedContext == [t |-> "object", s |-> <<>>, n |-> 0,
                            query |-> query, timestamp |-> t,
                            sessionId |-> currentSession(ctx, t),
                            recentConversations |-> recent.ret,
                            relevantKnowledge |-> found.ret]
    IN [ctx |-> storeContextValue(ctx, "enriched_context", enrichedContext),
        convs |-> recent.convs, table |-> found.table, log |-> found.log,
        ret |-> enrichedContext]

\* `Response to "${userQuery.substring(0, 30)}..." based on ${n} knowledge fragments`
responseText(userQuery, n) ==
    <<"R", "e", "s", "p", "o", "n", "s", "e", " ", "t", "o", " ", "\"">> \o Substring(userQuery, 30)
        \o <<".", ".", ".", "\"", " ", "b", "a", "s", "e", "d", " ", "o", "n", " ">> \o NumToText(n)
        \o <<" ", "k", "n", "o", "w", "l", "e", "d", "g", "e", " ", "f", "r", "a", "g", "m", "e", "n", "t", "s">>

\* `I encountered an issue while processing your query: "${userQuery.substring(0, 30)}..."`
fallbackText(userQuery) ==
    <<"I", " ", "e", "n", "c", "o", "u", "n", "t", "e", "r", "e", "d", " ", "a", "n", " ", "i", "s", "s", "u", "e", " ", "w", "h", "i", "l", "e", " ", "p", "r", "o", "c", "e", "s", "s", "i", "n", "g", " ", "y", "o", "u", "r", " ", "q", "u", "e", "r", "y", ":", " ", "\"">>
        \o Substring(userQuery, 30) \o <<".", ".", ".", "\"">>

\* a TypeError that leaves the function
TypeError == [t |-> "exception", s |-> <<"T", "y", "p", "e", "E", "r", "r", "o", "r">>, n |-> 0]

NoInteraction ==
    [userQuery |-> Undefined, responseCallback |-> "none", response |-> <<>>,
     relevant |-> 0, consolidated |-> FALSE]

\* (getContext("interaction_count") || 0) + 1
nextInteractionCount(old) == (IF Truthy(old) THEN old.n ELSE 0) + 1

\* consolidation on turns other than the multiples of 5 as well
isConsolidationTurn_FromFifth(interactionCount) == interactionCount >= 5

\* if (interactionCount % 5 === 0)
isConsolidationTurn(interactionCount) == interactionCount % 5 = 0

\* processInteraction, entry and steps 1-2: userQuery.substring(...) in the
\* log line, before the try, raises for a query that is no string; otherwise
\* the query is stored under "current_query" and logged as a user turn
ProcessInteraction(userQuery, responseCallback) ==
    /\ pc = "idle"
    /\ calls < MaxCalls
    /\ calls' = calls + 1
    /\ call' = [NoInteraction EXCEPT !.userQuery = userQuery,
                                     !.responseCallback = responseCallback]
    /\ IF userQuery.t # "string"
       THEN /\ failures' = failures + 1
            /\ lastCall' = [op |-> "processInteraction", key |-> userQuery,
                            arg |-> Undefined, ret |-> TypeError]
            /\ UNCHANGED <<pc, contexts, conversations>>
       ELSE /\ contexts' = storeContextValue(contexts, "current_query", userQuery)
            /\ conversations' = storeConversation(conversations, db, contexts, "user",
                                                  userQuery.s, <<>>, now).convs
            /\ pc' = "enrich"
            /\ lastCall' = [op |-> "processInteraction", key |-> userQuery,
                            arg |-> Undefined, ret |-> Undefined]
            /\ UNCHANGED failures
    /\ UNCHANGED <<now, working_context, semVars, db, turnVars, tblVars>>

\* processInteraction, step 3: this.enrichContext(userQuery)
EnrichContext ==
    /\ pc = "enrich"
    /\ LET done == enrichContext(registered, db, contexts, conversations,
                                 semantic_knowledge, memory_queries, semantic,
                                 call.userQuery.s, now)
       IN /\ contexts' = done.ctx
          /\ conversations' = done.convs
          /\ semantic_knowledge' = done.table
          /\ memory_queries' = done.log
          /\ call' = [call EXCEPT !.relevant = Len(done.ret.relevantKnowledge)]
    /\ pc' = "respond"
    /\ UNCHANGED <<now, working_context, lastCall, registered, knowledge_relationships,
                   memVars, db, calls, failures, turnVars, tblVars>>

\* processInteraction, steps 4-6: the response is made, stored under
\* "last_response" and logged as an assistant turn
StoreResponse ==
    /\ pc = "respond"
    /\ LET response == responseText(call.userQuery.s, call.relevant)
       IN /\ contexts' = storeContextValue(contexts, "last_response", Str(response))
          /\ conversations' = storeConversation(conversations, db, contexts, "assistant",
                                                response, <<>>, now).convs
          /\ call' = [call EXCEPT !.response = response]
    /\ pc' = "count"
    /\ UNCHANGED <<now, working_context, lastCall, semVars, db, calls, failures, turnVars, tblVars>>

\* processInteraction, step 7: the counter is incremented and stored; every
\* fifth turn goes on to consolidation
CountInteraction ==
    /\ pc = "count"
    /\ LET interactionCount ==
               nextInteractionCount(getContext(contexts, "interaction_count"))
       IN /\ contexts' = storeContextValue(contexts, "interaction_count",
                                           Num(interactionCount))
          /\ pc' = IF isConsolidationTurn(interactionCount) THEN "consolidate"
                   ELSE "callback"
    /\ UNCHANGED <<now, working_context, lastCall, semVars, epiVars, call, calls, failures, turnVars, tblVars>>

\* processInteraction, step 7 on a fifth turn: consolidateMemory, extractKnowledge
ConsolidateAndExtract(r) ==
    /\ pc = "consolidate"
    /\ LET moved == consolidateMemory(registered, db, contexts, working_context,
                                      conversations, semantic_knowledge, semantic, now, r)
           mined == extractKnowledge(registered, db, moved.convs, moved.table,
                                     moved.sem, now, r)
       IN /\ conversations' = mined.convs
          /\ semantic_knowledge' = mined.table
          /\ semantic' = mined.sem
    /\ call' = [call EXCEPT !.consolidated = TRUE]
    /\ pc' = "callback"
    /\ UNCHANGED <<now, stmVars, lastCall, registered, knowledge_relationships,
                   memory_queries, knowledgeRelationships, db, calls, failures, turnVars, tblVars>>

\* processInteraction, step 8 and return: the callback is called when it is a
\* function; when it throws the catch branch returns the fallback text
ReturnResponse ==
    /\ pc = "callback"
    /\ IF call.responseCallback = "throws"
       THEN /\ failures' = failures + 1
            /\ lastCall' = [lastCall EXCEPT !.ret = Str(fallbackText(call.userQuery.s))]
       ELSE /\ lastCall' = [lastCall EXCEPT !.ret = Str(call.response)]
            /\ UNCHANGED failures
    /\ pc' = "idle"
    /\ UNCHANGED <<now, stmVars, semVars, epiVars, call, calls, turnVars, tblVars>>

\* MEMORY_CONTROLLER.consolidateMemory() called on its own
ConsolidateMemory(r) ==
    /\ pc = "idle"
    /\ LET moved == consolidateMemory(registered, db, contexts, working_context,
                                      conversations, semantic_knowledge, semantic, now, r)
       IN /\ conversations' = moved.convs
          /\ semantic_knowledge' = moved.table
          /\ semantic' = moved.sem
    /\ lastCall' = [op |-> "consolidateMemory", key |-> "", arg |-> Undefined,
                    ret |-> Bool(TRUE)]
    /\ UNCHANGED <<now, stmVars, registered, knowledge_relationships, memory_queries,
                   knowledgeRelationships, db, ctlVars, turnVars, tblVars>>

\* MEMORY_SYSTEM.storeConversation(conversation): the parameter is
\* destructured and content.substring is called in the log line, both before
\* the try, so a missing argument object or a content that is no string
\* raises a TypeError; otherwise the row is stored and its id returned
StoreConversation(conversation) ==
    /\ pc = "idle"
    /\ Len(conversations) < MaxEpisodes
    /\ IF conversation.t # "object" \/ conversation.content.t # "string"
       THEN /\ lastCall' = [op |-> "storeConversation", key |-> "", arg |-> Undefined,
                            ret |-> TypeError]
            /\ UNCHANGED conversations
       ELSE LET done == storeConversation(conversations, db, contexts, conversation.role,
                                          conversation.content.s,
                                          IF "metadata" \in DOMAIN conversation
                                          THEN conversation.metadata ELSE <<>>, now)
            IN /\ conversations' = done.convs
               /\ lastCall' = [op |-> "storeConversation", key |-> "",
                               arg |-> conversation.content, ret |-> done.ret]
    /\ UNCHANGED <<now, stmVars, semVars, db, ctlVars, turnVars, tblVars>>

\* MEMORY_CONTROLLER.extractKnowledge() called on its own
ExtractKnowledge(r) ==
    /\ pc = "idle"
    /\ LET mined == extractKnowledge(registered, db, conversations, semantic_knowledge,
                                     semantic, now, r)
       IN /\ conversations' = mined.convs
          /\ semantic_knowledge' = mined.table
          /\ semantic' = mined.sem
          /\ lastCall' = [op |-> "extractKnowledge", key |-> "", arg |-> Undefined,
                          ret |-> mined.ret]
    /\ UNCHANGED <<now, stmVars, registered, knowledge_relationships, memory_queries,
                   knowledgeRelationships, db, ctlVars, turnVars, tblVars>>

\* MEMORY_CONTROLLER.enrichContext(query) called on its own, with a string
EnrichContextOf(query) ==
    /\ pc = "idle"
    /\ Len(memory_queries) < MaxQueries
    /\ LET done == enrichContext(registered, db, contexts, conversations,
                                 semantic_knowledge, memory_queries, semantic, query, now)
       IN /\ contexts' = done.ctx
          /\ conversations' = done.convs
          /\ semantic_knowledge' = done.table
          /\ memory_queries' = done.log
          /\ lastCall' = [op |-> "enrichContext", key |-> "", arg |-> Str(query),
                          ret |-> done.ret]
    /\ UNCHANGED <<now, working_context, registered, knowledge_relationships,
                   memVars, db, ctlVars, turnVars, tblVars>>

\* addWorkingContext() or getWorkingContext() without the argument object:
\* the parameter `{ topic, ... }` cannot be destructured from undefined, and
\* the TypeError arises before the body, outside its try
WithoutArgument(op) ==
    /\ op \in {"addWorkingContext", "getWorkingContext"}
    /\ lastCall' = [op |-> op, key |-> "working_context", arg |-> Undefined,
                    ret |-> TypeError]
    /\ UNCHANGED <<now, stmVars, semVars, epiVars, ctlVars, turnVars, tblVars>>

-----------------------------------------------------------------------------
(* Banner system (communication/direct-banner.js, driven as in
   test-banner-system.js) *)

\* globalThis after the deletes at the top of test-banner-system.js
NoSystems ==
    [MEMORY_SYSTEM |-> "absent", SCRATCHPAD |-> "absent", MULTI_AGENT_SYSTEM |-> "absent"]

\* the forms a system object is installed in: the basic objects
\* test-banner-system.js assigns (store/get of a context, createMessage, three
\* agents with getActiveAgent and active_agent "backend-developer"), and for
\* the scratchpad the object of the scratchpad script, which has no
\* createMessage
SystemForms ==
    [MEMORY_SYSTEM |-> {"absent", "basic"},
     SCRATCHPAD |-> {"absent", "plain", "createMessage"},
     MULTI_AGENT_SYSTEM |-> {"absent", "agents"}]

\* testMemorySystem().active: the system exists and a stored test value is
\* read back
testMemorySystem(g) == g.MEMORY_SYSTEM = "basic"

\* testScratchpadSystem().active: the system exists and has a createMessage
\* function
testScratchpadSystem(g) == g.SCRATCHPAD = "createMessage"

\* testMultiAgentSystem().active: getActiveAgent() gives an agent with a name
testMultiAgentSystem(g) == g.MULTI_AGENT_SYSTEM = "agents"

\* getActiveAgent().name
getActiveAgent(g) ==
    IF g.MULTI_AGENT_SYSTEM = "agents" THEN "BACKEND DEVELOPER"
    ELSE "EXECUTIVE ARCHITECT"

ActiveOrInactive(active) == IF active THEN "ACTIVE" ELSE "INACTIVE"

\* the body of the function forceBanners that runs once when the module is
\* loaded: the four banners, from the tests run at that moment
statusBanners(g) ==
    <<[system |-> "MEMORY SYSTEM", status |-> ActiveOrInactive(testMemorySystem(g))],
      [system |-> "SCRATCHPAD SYSTEM",
       status |-> ActiveOrInactive(testScratchpadSystem(g))],
      [system |-> "AGENT", status |-> getActiveAgent(g)],
      [system |-> "MULTI-AGENT SYSTEM",
       status |-> ActiveOrInactive(testMultiAgentSystem(g))]>>

\* module.exports.forceBanners: runs a function with an empty body and
\* returns true
forceBanners(banners, g) == [banners |-> banners, ret |-> Bool(TRUE)]

\* globalThis.<system> = {...} or delete globalThis.<system>
Install(system, form) ==
    /\ installed[system] # form
    /\ installed' = [installed EXCEPT ![system] = form]
    /\ UNCHANGED <<now, stmVars, lastCall, semVars, epiVars, ctlVars, turnVars,
                   short_term_memory, summaries, connection, memoryObject, episodic_memory,
                   nextResponsePrepend, bannerCached, tasks, messages>>

\* require(bannerPath): the module body runs when the module is not cached
RequireBanner ==
    /\ nextResponsePrepend' = IF bannerCached THEN nextResponsePrepend
                              ELSE statusBanners(installed)
    /\ bannerCached' = TRUE
    /\ lastCall' = [op |-> "require", key |-> "direct-banner.js", arg |-> Undefined,
                    ret |-> Undefined]
    /\ UNCHANGED <<now, stmVars, semVars, epiVars, ctlVars, turnVars,
                   short_term_memory, summaries, connection, memoryObject, episodic_memory,
                   installed, tasks, messages>>

\* delete require.cache[require.resolve(bannerPath)]
DropCache ==
    /\ bannerCached
    /\ bannerCached' = FALSE
    /\ UNCHANGED <<now, stmVars, lastCall, semVars, epiVars, ctlVars, turnVars,
                   short_term_memory, summaries, connection, memoryObject, episodic_memory,
                   installed, nextResponsePrepend, tasks, messages>>

\* globalThis.nextResponsePrepend = []
ClearBanners ==
    /\ nextResponsePrepend # <<>>
    /\ nextResponsePrepend' = <<>>
    /\ UNCHANGED <<now, stmVars, lastCall, semVars, epiVars, ctlVars, turnVars,
                   short_term_memory, summaries, connection, memoryObject, episodic_memory,
                   installed, bannerCached, tasks, messages>>

\* bannerSystem.forceBanners() on the exports of the loaded module
ForceBanners ==
    /\ bannerCached
    /\ LET done == forceBanners(nextResponsePrepend, installed)
       IN /\ nextResponsePrepend' = done.banners
          /\ lastCall' = [op |-> "forceBanners", key |-> "", arg |-> Undefined,
                          ret |-> done.ret]
    /\ UNCHANGED <<now, stmVars, semVars, epiVars, ctlVars, turnVars,
                   short_term_memory, summaries, connection, memoryObject, episodic_memory,
                   installed, bannerCached, tasks, messages>>

-----------------------------------------------------------------------------
(* Direct activation of the memory system (enforcer.js) *)

\* globalThis.MEMORY_SYSTEM.initialized: db/memory-system.js sets it when it
\* is loaded and the object of the enforcer is made with it; the short-term
\* script, which makes MEMORY_SYSTEM = {} and binds its functions to it, does not
initialized(object, dbKind) == object = "minimal" \/ dbKind = "MemoryDB"

\* shortTerm: {} of the minimal memory system: no key has a value
EmptyShortTerm == [k \in DOMAIN InitContexts |-> Absent]

\* MEMORY_SYSTEM.getContext(key) on the object installed: getContext of the
\* short-term script, or `return this.shortTerm[key]` of the minimal system
readContext(object, ctx, key) ==
    IF object = "ShortTermMemory" THEN getContext(ctx, key)
    ELSE IF ctx[key] = Absent THEN Undefined ELSE ctx[key]

\* the object has addWorkingContext, getWorkingContext and pruneMemory: the
\* minimal system has storeContext and getContext only
hasWorkingContext(object) == object = "ShortTermMemory"

\* activateMemory(): when there is no MEMORY_SYSTEM or its `initialized` is
\* falsy, globalThis.MEMORY_SYSTEM becomes a new minimal system with an empty
\* shortTerm; else the existing system is left; true is returned
activateMemory(object, dbKind, ctx) ==
    IF ~initialized(object, dbKind)
    THEN [object |-> "minimal", ctx |-> EmptyShortTerm]
    ELSE [object |-> object, ctx |-> ctx]

\* contexts is the store behind MEMORY_SYSTEM.storeContext and getContext:
\* after the replacement, the shortTerm of the minimal system
ActivateMemory ==
    /\ pc = "idle"
    /\ LET done == activateMemory(memoryObject, db, contexts)
       IN /\ memoryObject' = done.object
          /\ contexts' = done.ctx
    /\ lastCall' = [op |-> "activateMemory", key |-> "", arg |-> Undefined,
                    ret |-> Bool(TRUE)]
    /\ UNCHANGED <<now, working_context, semVars, epiVars, ctlVars, turnVars,
                   short_term_memory, summaries, connection, episodic_memory,
                   installed, nextResponsePrepend, bannerCached, tasks, messages>>

\* MEMORY_SYSTEM.storeContext(key, value) on the object installed: both
\* functions write the value under the key and return true
StoreContextOf(contextName, value) ==
    /\ contexts' = storeContextValue(contexts, contextName, value)
    /\ lastCall' = [op |-> "storeContext", key |-> contextName, arg |-> value,
                    ret |-> Bool(TRUE)]
    /\ UNCHANGED <<now, working_context, semVars, epiVars, ctlVars, turnVars, tblVars>>

\* MEMORY_SYSTEM.getContext(key) on the object installed
GetContextOf(contextName) ==
    /\ lastCall' = [op |-> "getContext", key |-> contextName, arg |-> Undefined,
                    ret |-> readContext(memoryObject, contexts, contextName)]
    /\ UNCHANGED <<now, contexts, working_context, semVars, epiVars, ctlVars, turnVars,
                   tblVars>>

\* MEMORY_SYSTEM.addWorkingContext({...}) on the object installed: a
\* TypeError where the object has no such function
AddWorkingContextOf(topic, details, importance, expires, r) ==
    IF hasWorkingContext(memoryObject)
    THEN AddWorkingContext(topic, details, importance, expires, r)
    ELSE /\ lastCall' = [op |-> "addWorkingContext", key |-> "", arg |-> Undefined,
                         ret |-> TypeError]
         /\ UNCHANGED <<now, stmVars, semVars, epiVars, ctlVars, turnVars, tblVars>>

-----------------------------------------------------------------------------
(* Scratchpad communication system (scratchpad script, unnamed/part_005) *)

\* `msg_${Date.now()}_${Math.floor(Math.random() * 10000)}`
msgId(t, r) == <<"m", "s", "g", "_">> \o NumToText(t) \o <<"_">> \o NumToText(r)

\* `task_${Date.now()}_${Math.floor(Math.random() * 10000)}`
taskId(t, r) == <<"t", "a", "s", "k", "_">> \o NumToText(t) \o <<"_">> \o NumToText(r)

\* sendMessage(from, to, content): the message is pushed unread, its id returned
sendMessage(msgs, from, to, content, t, r) ==
    [messages |-> Append(msgs, [id |-> msgId(t, r), from |-> from, to |-> to,
                                content |-> content, timestamp |-> t, read |-> FALSE]),
     ret |-> Str(msgId(t, r))]

\* defaultOptions.limit of readMessages
messageLimit == 10

\* defaultOptions of readMessages
defaultOptions ==
    [markAsRead |-> TRUE, onlyUnread |-> FALSE, limit |-> messageLimit, from |-> Null]

\* readMessages(agent, options), options merged with the defaults: the
\* messages to the agent, from the sender if one is given, the unread ones if
\* onlyUnread, newest first, at most `limit` of them if the limit is
\* positive; if markAsRead, for each of them the first message of its id is
\* marked read; the objects returned are those of the scratchpad
readMessages(msgs, agent, mergedOptions) ==
    LET positions == [i \in 1..Len(msgs) |-> [pos |-> i, timestamp |-> msgs[i].timestamp]]
        wanted(p) == /\ msgs[p.pos].to = agent
                     /\ (mergedOptions.from # Null => msgs[p.pos].from = mergedOptions.from)
                     /\ (mergedOptions.onlyUnread => ~msgs[p.pos].read)
        sorted == SortByTimestampDesc(SelectSeq(positions, wanted))
        picked == IF mergedOptions.limit > 0 THEN Take(sorted, mergedOptions.limit)
                                             ELSE sorted
        firstWith(id) == CHOOSE i \in 1..Len(msgs) :
                            /\ msgs[i].id = id
                            /\ \A k \in 1..(i - 1) : msgs[k].id # id
        marked == IF mergedOptions.markAsRead
                  THEN {firstWith(msgs[picked[k].pos].id) : k \in 1..Len(picked)}
                  ELSE {}
        after == [i \in 1..Len(msgs) |->
                    IF i \in marked THEN [msgs[i] EXCEPT !.read = TRUE] ELSE msgs[i]]
    IN [messages |-> after, ret |-> [k \in 1..Len(picked) |-> after[picked[k].pos]]]

\* `New task assigned: ${description}`
taskNotice(description) ==
    <<"N", "e", "w", " ", "t", "a", "s", "k", " ", "a", "s", "s", "i", "g", "n", "e", "d", ":", " ">>
        \o description

\* the receiver has a sendMessage function: the ScratchpadSystem object has,
\* globalThis (or undefined, in strict code) has not
hasSendMessage(receiver) == receiver = "SCRATCHPAD_SYSTEM"

\* createTask(description, assignedTo) called on `receiver`: the task is
\* pushed, then this.sendMessage notifies the assignee and the id is returned;
\* where this.sendMessage is no function the TypeError is caught after the
\* push and null returned
createTask(receiver, tks, msgs, description, assignedTo, t, r, q) ==
    LET task == [id |-> taskId(t, r), description |-> description,
                 assignedTo |-> assignedTo, status |-> "pending", priority |-> 5,
                 details |-> Null, due |-> Null, created |-> t, updated |-> t,
                 result |-> Null]
    IN IF hasSendMessage(receiver)
       THEN [tasks |-> Append(tks, task),
             messages |-> sendMessage(msgs, "system", assignedTo,
                                      taskNotice(description), t, q).messages,
             ret |-> Str(task.id)]
       ELSE [tasks |-> Append(tks, task), messages |-> msgs, ret |-> Null]

\* sendAgentMessage(from, to, content)
SendAgentMessage(from, to, content, r) ==
    /\ Len(messages) < MaxMessages
    /\ LET done == sendMessage(messages, from, to, content, now, r)
       IN /\ messages' = done.messages
          /\ lastCall' = [op |-> "sendAgentMessage", key |-> to, arg |-> content,
                          ret |-> done.ret]
    /\ UNCHANGED <<now, stmVars, semVars, epiVars, ctlVars, turnVars,
                   short_term_memory, summaries, connection, memoryObject, episodic_memory,
                   installed, nextResponsePrepend, bannerCached, tasks>>

\* readAgentMessages(agent)
ReadAgentMessages(agent) ==
    /\ LET done == readMessages(messages, agent, defaultOptions)
       IN /\ messages' = done.messages
          /\ lastCall' = [op |-> "readAgentMessages", key |-> agent, arg |-> Undefined,
                          ret |-> Arr(done.ret)]
    /\ UNCHANGED <<now, stmVars, semVars, epiVars, ctlVars, turnVars,
                   short_term_memory, summaries, connection, memoryObject, episodic_memory,
                   installed, nextResponsePrepend, bannerCached, tasks>>

\* SCRATCHPAD_SYSTEM.readMessages(agent, options)
ReadMessages(agent, options) ==
    /\ LET done == readMessages(messages, agent, options)
       IN /\ messages' = done.messages
          /\ lastCall' = [op |-> "readMessages", key |-> agent, arg |-> options,
                          ret |-> Arr(done.ret)]
    /\ UNCHANGED <<now, stmVars, semVars, epiVars, ctlVars, turnVars,
                   short_term_memory, summaries, connection, memoryObject, episodic_memory,
                   installed, nextResponsePrepend, bannerCached, tasks>>

\* SCRATCHPAD_SYSTEM.createTask(description, assignedTo)
CreateTask(description, assignedTo, r, q) ==
    /\ Len(tasks) < MaxTasks
    /\ Len(messages) < MaxMessages
    /\ LET done == createTask("SCRATCHPAD_SYSTEM", tasks, messages, description,
                              assignedTo, now, r, q)
       IN /\ tasks' = done.tasks
          /\ messages' = done.messages
          /\ lastCall' = [op |-> "createTask", key |-> assignedTo, arg |-> description,
                          ret |-> done.ret]
    /\ UNCHANGED <<now, stmVars, semVars, epiVars, ctlVars, turnVars,
                   short_term_memory, summaries, connection, memoryObject, episodic_memory,
                   installed, nextResponsePrepend, bannerCached>>

\* createAgentTask(description, assignedTo): the function of ScratchpadSystem
\* called through the global it was copied to
CreateAgentTask(description, assignedTo, r, q) ==
    /\ Len(tasks) < MaxTasks
    /\ Len(messages) < MaxMessages
    /\ LET done == createTask("globalThis", tasks, messages, description,
                              assignedTo, now, r, q)
       IN /\ tasks' = done.tasks
          /\ messages' = done.messages
          /\ lastCall' = [op |-> "createAgentTask", key |-> assignedTo,
                          arg |-> description, ret |-> done.ret]
    /\ UNCHANGED <<now, stmVars, semVars, epiVars, ctlVars, turnVars,
                   short_term_memory, summaries, connection, memoryObject, episodic_memory,
                   installed, nextResponsePrepend, bannerCached>>

-----------------------------------------------------------------------------

\* the state after the scripts have been loaded, `conn` being what the load
\* of db/memory-system.js got for its database
Loaded(conn) ==
    /\ now = 1
    /\ contexts = InitContexts
    /\ working_context = <<>>
    /\ lastCall = NoCall
    /\ \E c \in Configurations : registered = c[1] /\ db = c[2]
    /\ semantic_knowledge = {}
    /\ knowledge_relationships = {}
    /\ semantic = InitSemantic
    /\ knowledgeRelationships = <<>>
    /\ memory_queries = <<>>
    /\ conversations = <<>>
    /\ pc = "idle"
    /\ call = NoInteraction
    /\ calls = 0
    /\ failures = 0
    /\ conversation_context = <<>>
    /\ added = <<>>
    /\ short_term_memory = {}
    /\ summaries = <<>>
    /\ connection = conn
    /\ episodic_memory = <<>>
    /\ installed = NoSystems
    /\ memoryObject = "ShortTermMemory"
    /\ nextResponsePrepend = <<>>
    /\ bannerCached = FALSE
    /\ tasks = <<>>
    /\ messages = <<>>

\* new sqlite3(DB_PATH) succeeded
Init == Loaded("sqlite")

\* new sqlite3(DB_PATH) threw and db/memory-system.js made the stub
InitStub == Loaded("stub") /\ db = "MemoryDB"

NextContexts ==
    \/ \E k \in CtxNames, v \in CtxValues : StoreContext(k, v)
    \/ \E k \in CtxNames : GetContext(k)
    \/ \E k \in CtxNames : ClearContext(k)

SpecContexts == Init /\ [][NextContexts]_vars

NextWorking ==
    \/ \E tp \in WcTopics, d \in WcDetails, i \in WcImportances,
          e \in WcExpiries, r \in RandomDraws : AddWorkingContext(tp, d, i, e, r)
    \/ \E ts \in PruneTargets : PruneMemory(ts)
    \/ Tick

SpecWorking == Init /\ [][NextWorking]_vars

\* ids a caller can hold: every id storeKnowledge can have returned
KnownIds ==
    {Str(mintId(c, tp, t)) : c \in KCategories, tp \in KTopics, t \in 1..MaxTime}
        \cup {Str(o.id) : o \in KOptions}

NextKnowledge ==
    \/ \E c \in KCategories, tp \in KTopics, x \in KContents, o \in KOptions :
          StoreKnowledge(c, tp, x, o)
    \/ \E c \in KCategories, tp \in KTopics : GetKnowledge(c, tp)
    \/ \E id \in KnownIds : GetById(id)
    \/ Tick

SpecKnowledge == Init /\ [][NextKnowledge]_vars

\* ids handed to createRelationship: ids of nodes that can exist, and one of
\* no node
RelEndpoints ==
    {Str(mintId(Str(<<"a", "_", "b">>), Str(<<"c">>), 1))}
        \cup {Str(smId(1, r)) : r \in RandomDraws}
        \cup {Str(<<"z", "z">>)}

NextRelations ==
    \/ \E x \in KContents :
          StoreKnowledge(Str(<<"a", "_", "b">>), Str(<<"c">>), x, NoOptions)
    \/ \E tp \in MemTopics, k \in MemKnowledge, r \in RandomDraws :
          MemStoreKnowledge(tp, k, r)
    \/ \E src \in RelEndpoints, tgt \in RelEndpoints, ty \in RelTypes, r \in RandomDraws :
          CreateRelationship(src, tgt, ty, NoRelationOptions, r)
    \/ Tick

SpecRelations == Init /\ [][NextRelations]_vars

Queries == {Str(<<"g", "o", "a", "l", " ", "b", "u", "g">>), Num(42)}
Callbacks == {"none", "returns", "throws"}

NextController ==
    \/ \E q \in Queries, cb \in Callbacks : ProcessInteraction(q, cb)
    \/ EnrichContext
    \/ StoreResponse
    \/ CountInteraction
    \/ \E r \in RandomStreams : ConsolidateAndExtract(r)
    \/ ReturnResponse
    \/ /\ pc = "idle"
       /\ working_context = <<>>
       /\ \E tp \in WcTopics, d \in WcDetails, r \in RandomDraws :
             AddWorkingContext(tp, d, 5, 0, r)
    \/ Tick

SpecController == Init /\ [][NextController]_vars

ConsTopics == {<<"g", "o", "a", "l">>, <<"p", "l", "a", "n">>}
ConsImportances == {3, 4, 5}

NextConsolidate ==
    \/ \E tp \in ConsTopics, d \in WcDetails, i \in ConsImportances, r \in RandomDraws :
          AddWorkingContext(tp, d, i, 0, r)
    \/ \E r \in RandomStreams : ConsolidateMemory(r)
    \/ Tick

SpecConsolidate == Init /\ [][NextConsolidate]_vars

\* topic null (no filter) or a topic
QueryTopics == ConsTopics \cup {<<>>}
MinImportances == {0, 4}
MaxItemsArgs == {0, 1, 2}

NextRetrieve ==
    \/ \E tp \in ConsTopics, d \in WcDetails, i \in {3, 5}, e \in {0, 2}, r \in RandomDraws :
          AddWorkingContext(tp, d, i, e, r)
    \/ \E tp \in QueryTopics, mi \in MinImportances, mx \in MaxItemsArgs :
          GetWorkingContext(tp, mi, mx)
    \/ Tick

SpecRetrieve == Init /\ [][NextRetrieve]_vars

StmKeys == {"k", "m"}
StmValues == {Str(<<"v">>), Str(<<>>), Str(<<"7">>), Num(0), Bool(FALSE), Null}
StmExpiries == {0, 2}           \* 0 stands for no expiryTime

NextShortTerm ==
    \/ \E k \in StmKeys, v \in StmValues, e \in StmExpiries : ShortTermStore(k, v, e)
    \/ \E k \in StmKeys : ShortTermGet(k)
    \/ Tick

SpecShortTerm == Init /\ [][NextShortTerm]_vars

\* the relationship graph of the database: two nodes, edges of two types
GraphTopics == {Str(<<"c">>), Str(<<"d">>)}
GraphTypes == RelTypes \cup {Str(<<"u", "s", "e", "s">>)}
Directions == {Outgoing, Incoming, Both, Undefined}
RelationshipOptions ==
    {[t |-> "object", direction |-> d, relationshipType |-> ty] :
        d \in Directions, ty \in {Undefined, Str(<<"u", "s", "e", "s">>)}}

\* ids handed to the relationship functions: the ids of the nodes stored, and
\* for the reader one of no node
NodeIds(table) == {Str(row.id) : row \in table}
GraphIds(table) == NodeIds(table) \cup {Str(<<"z", "z">>)}

NextGraph ==
    \/ /\ registered = "MemoryDB"
       /\ knowledge_relationships = {}
       /\ \E tp \in GraphTopics :
             StoreKnowledge(Str(<<"a", "_", "b">>), tp, Str(<<"x">>), NoOptions)
    \/ /\ registered = "MemoryDB"
       /\ \E src \in NodeIds(semantic_knowledge), tgt \in NodeIds(semantic_knowledge),
             ty \in GraphTypes, r \in RandomDraws :
             CreateRelationship(src, tgt, ty, NoRelationOptions, r)
    \/ /\ registered = "MemoryDB"
       /\ \E id \in GraphIds(semantic_knowledge), o \in RelationshipOptions :
             GetRelationships(id, o)
    \/ Tick

SpecGraph == Init /\ [][NextGraph]_vars

\* searching the knowledge table: two nodes of either confidence, queries in
\* either case, one of them the LIKE wildcard
SearchTopics == {Str(<<"c">>), Str(<<"d">>)}
SearchContents == {Str(<<"x">>), Str(<<"C">>)}
SearchOptions == {NoOptions, [NoOptions EXCEPT !.confidence = Num(2)]}
SearchQueries == {<<"c">>, <<"X">>, <<"_">>}
SearchLimits == {0, 1}

NextSearch ==
    \/ /\ memory_queries = <<>>
       /\ \E tp \in SearchTopics, x \in SearchContents, o \in SearchOptions :
             StoreKnowledge(Str(<<"a", "_", "b">>), tp, x, o)
    \/ \E q \in SearchQueries, l \in SearchLimits : Search(q, Undefined, l)
    \/ Tick

SpecSearch == Init /\ [][NextSearch]_vars

\* summaries of two sessions, stored in any order of their end times
SummarySessions == {<<"s", "1">>, <<"s", "2">>}
SummaryEndTimes == {1, 2}
SummaryParams ==
    {[t |-> "object", session_id |-> sid, summary |-> <<"t", "a", "l", "k">>,
      start_time |-> 0, end_time |-> e, message_count |-> 1] :
        sid \in SummarySessions, e \in SummaryEndTimes}

NextSummaries ==
    \/ \E params \in SummaryParams : StoreSummary(params)
    \/ \E sid \in SummarySessions : GetSessionSummary(sid)

SpecSummaries == Init /\ [][NextSummaries]_vars

TurnRoles == {"user", "assistant"}
TurnContents == {<<"h", "i">>}
TurnCounts == {5}

NextTurns ==
    \/ \E role \in TurnRoles, content \in TurnContents : AddConversationTurn(role, content)
    \/ \E count \in TurnCounts : GetConversationContext(count)

SpecTurns == Init /\ [][NextTurns]_vars

\* a conversation argument: role and content
Episode(role, content) == [t |-> "object", role |-> role, content |-> content]

EpisodeRoles == {"user", "system"}
EpisodeContents ==
    {Str(<<"t", "h", "e", "r", "e", " ", "i", "s", " ", "a", " ", "b", "u", "g", " ", "i", "n", " ", "t", "h", "e", " ", "f", "u", "n", "c", "t", "i", "o", "n">>), Str(<<"a", " ", "b", "u", "g">>),
     Str(<<"h", "e", "l", "l", "o">>)}

NextExtract ==
    \/ \E role \in EpisodeRoles, content \in EpisodeContents :
          StoreConversation(Episode(role, content))
    \/ \E r \in RandomStreams : ExtractKnowledge(r)
    \/ Tick

SpecExtract == Init /\ [][NextExtract]_vars

\* storeConversation arguments: none, a number for content, a text
FaultyEpisodes ==
    {Undefined, Episode("user", Num(42)), Episode("user", Str(<<"h", "e", "l", "l", "o">>))}

NextFaults ==
    \/ \E op \in {"addWorkingContext", "getWorkingContext"} : WithoutArgument(op)
    \/ \E tp \in WcTopics, d \in WcDetails, i \in WcImportances, r \in RandomDraws :
          AddWorkingContext(tp, d, i, 0, r)
    \/ \E mx \in MaxItemsArgs : GetWorkingContext(<<>>, 0, mx)
    \/ \E conversation \in FaultyEpisodes : StoreConversation(conversation)
    \/ Tick

SpecFaults == Init /\ [][NextFaults]_vars

\* episodes of two sessions and two roles at two times, read back through
\* every combination of filters, offset and limit
ConvSessions == {<<"s", "1">>, <<"s", "2">>}
ConvRoles == {"user", "assistant"}
ConvPages == {<<0, 0>>, <<1, 0>>, <<1, 1>>}      \* <<limit, offset>>
ConvRanges == {<<0, 0>>, <<2, 0>>, <<0, 1>>}     \* <<start_time, end_time>>
ConvFilters ==
    {[t |-> "object", session_id |-> sid, role |-> role, start_time |-> range[1],
      end_time |-> range[2], limit |-> page[1], offset |-> page[2]] :
        sid \in {<<>>, <<"s", "1">>}, role \in {"", "user"}, range \in ConvRanges,
        page \in ConvPages}

NextConversations ==
    \/ \E sid \in ConvSessions : StoreContext("session_id", Str(sid))
    \/ /\ Len(conversations) < MaxStored
       /\ \E role \in ConvRoles :
             StoreConversation(Episode(role, Str(<<"h", "e", "l", "l", "o">>)))
    \/ \E params \in ConvFilters : GetConversations(params)
    \/ Tick

SpecConversations == Init /\ [][NextConversations]_vars

\* two nodes of one category and of equal confidence, read through each of
\* the four readers at two times
AccessTopics == {Str(<<"c">>), Str(<<"d">>)}
AccessCategory == Str(<<"a", "_", "b">>)

NextAccess ==
    \/ \E tp \in AccessTopics :
          StoreKnowledge(AccessCategory, tp, Str(<<"x">>), NoOptions)
    \/ \E tp \in AccessTopics : GetKnowledge(AccessCategory, tp)
    \/ \E id \in GraphIds(semantic_knowledge) : GetById(id)
    \/ GetByCategory(AccessCategory)
    \/ \E l \in SearchLimits : Search(<<"x">>, Undefined, l)
    \/ Tick

SpecAccess == Init /\ [][NextAccess]_vars

\* nodes of two categories whose topic or content holds the query, searched
\* with and without a category
FilterCategories == {Str(<<"a", "_", "b">>), Str(<<"e">>)}
FilterTopics == {Str(<<"c">>), Str(<<"d">>)}
FilterContents == {Str(<<"c">>), Str(<<"x">>)}

NextFilter ==
    \/ \E ca \in FilterCategories, tp \in FilterTopics, x \in FilterContents :
          StoreKnowledge(ca, tp, x, NoOptions)
    \/ \E ca \in FilterCategories \cup {Undefined}, l \in SearchLimits :
          Search(<<"c">>, ca, l)
    \/ Tick

SpecFilter == Init /\ [][NextFilter]_vars

\* the three systems installed and removed in any order around loads of the
\* banner module and calls of its forceBanners
Systems == {"MEMORY_SYSTEM", "SCRATCHPAD", "MULTI_AGENT_SYSTEM"}

NextBanners ==
    \/ \E system \in Systems : \E form \in SystemForms[system] : Install(system, form)
    \/ RequireBanner
    \/ DropCache
    \/ ClearBanners
    \/ ForceBanners

SpecBanners == Init /\ [][NextBanners]_vars

\* two agents sending messages, creating tasks for each other and reading
\* their messages
PadAgents == {"coder", "planner"}
PadTexts == {<<"f", "i", "x">>}

NextPad ==
    \/ \E to \in PadAgents, x \in PadTexts, r \in RandomDraws :
          SendAgentMessage("planner", to, x, r)
    \/ \E agent \in PadAgents : ReadAgentMessages(agent)
    \/ \E x \in PadTexts, to \in PadAgents, r \in RandomDraws, q \in RandomDraws :
          CreateTask(x, to, r, q)
    \/ \E x \in PadTexts, to \in PadAgents, r \in RandomDraws, q \in RandomDraws :
          CreateAgentTask(x, to, r, q)
    \/ Tick

SpecPad == Init /\ [][NextPad]_vars

\* nodes stored with no confidence, with confidence 0 and with confidence 1
ConfidenceTopics == {Str(<<"c">>), Str(<<"d">>)}
ConfidenceOptions ==
    {NoOptions, [NoOptions EXCEPT !.confidence = Num(0)],
     [NoOptions EXCEPT !.confidence = Num(1)]}

NextConfidence ==
    \/ \E tp \in ConfidenceTopics, o \in ConfidenceOptions :
          StoreKnowledge(Str(<<"a", "_", "b">>), tp, Str(<<"x">>), o)
    \/ \E tp \in ConfidenceTopics : GetKnowledge(Str(<<"a", "_", "b">>), tp)
    \/ Tick

SpecConfidence == Init /\ [][NextConfidence]_vars

\* items without expiry and with an expiry at either time of the clock,
\* read and pruned at those times
NextExpiry ==
    \/ \E tp \in WcTopics, d \in WcDetails, i \in {3, 5}, e \in WcExpiries,
          r \in RandomDraws : AddWorkingContext(tp, d, i, e, r)
    \/ \E mx \in {0, 1} : GetWorkingContext(<<>>, 0, mx)
    \/ \E ts \in PruneTargets : PruneMemory(ts)
    \/ Tick

SpecExpiry == Init /\ [][NextExpiry]_vars

\* messages sent to two agents, with ids that may or may not differ, and
\* read with { onlyUnread: true } under the default limit and under a limit
\* shorter than the inbox
InboxDraws == {17, 42}
InboxOptions ==
    {[defaultOptions EXCEPT !.onlyUnread = TRUE],
     [defaultOptions EXCEPT !.onlyUnread = TRUE, !.limit = 1]}

NextInbox ==
    \/ \E to \in PadAgents, x \in PadTexts, r \in InboxDraws :
          SendAgentMessage("planner", to, x, r)
    \/ \E agent \in PadAgents, o \in InboxOptions : ReadMessages(agent, o)
    \/ Tick

SpecInbox == Init /\ [][NextInbox]_vars

\* important items with and without an expiry, consolidated before and after
\* the expiry has passed
NextPromote ==
    \/ \E tp \in ConsTopics, d \in WcDetails, i \in {3, 5}, e \in {0, 1},
          r \in RandomDraws : AddWorkingContext(tp, d, i, e, r)
    \/ \E r \in RandomStreams : ConsolidateMemory(r)
    \/ Tick

SpecPromote == Init /\ [][NextPromote]_vars

\* values stored and read before and after activateMemory, in every
\* configuration of the scripts
ActivateValues == {Str(<<"v">>), Num(0)}

NextActivate ==
    \/ \E k \in CtxNames, v \in ActivateValues : StoreContextOf(k, v)
    \/ \E k \in CtxNames : GetContextOf(k)
    \/ \E tp \in WcTopics, d \in WcDetails, r \in RandomDraws :
          AddWorkingContextOf(tp, d, 3, 0, r)
    \/ ActivateMemory
    \/ Tick

SpecActivate == Init /\ [][NextActivate]_vars

\* the same triple related again and again with every kind of strength and
\* metadata, through the function either script registers
EdgeStrengths == {Undefined, Num(0), Num(2)}
EdgeOptions ==
    {[t |-> "object", strength |-> st, metadata |-> md] :
        st \in EdgeStrengths, md \in {Undefined, EmptyObject}}
EdgeEndpoints(table) ==
    IF registered = "MemoryDB" THEN NodeIds(table) ELSE {Str(<<"z", "z">>)}

NextEdges ==
    \/ /\ registered = "MemoryDB"
       /\ StoreKnowledge(Str(<<"a", "_", "b">>), Str(<<"c">>), Str(<<"x">>), NoOptions)
    \/ \E src \in EdgeEndpoints(semantic_knowledge), o \in EdgeOptions,
          r \in RandomDraws :
          CreateRelationship(src, src, Str(<<"u", "s", "e", "s">>), o, r)
    \/ Tick

SpecEdges == Init /\ [][NextEdges]_vars

\* episodes stored with the default metadata or with a metadata text that is
\* no JSON, and read back several times
NotedMetadata == <<"n", "o", "t", "e">>
NotedEpisodes ==
    {Episode("user", Str(<<"h", "e", "l", "l", "o">>)),
     [t |-> "object", role |-> "user", content |-> Str(<<"h", "e", "l", "l", "o">>),
      metadata |-> NotedMetadata]}
NotedFilters ==
    {[t |-> "object", session_id |-> <<>>, role |-> "", start_time |-> 0,
      end_time |-> 0, limit |-> limit, offset |-> 0] : limit \in {0, 1}}

NextMetadata ==
    \/ /\ Len(conversations) < MaxStored
       /\ \E conversation \in NotedEpisodes : StoreConversation(conversation)
    \/ \E params \in NotedFilters : GetConversations(params)
    \/ Tick

SpecMetadata == Init /\ [][NextMetadata]_vars

\* lists of one or two episodes handed to summarizeConversations
SummarizedRoles == {"user", "assistant"}
SummarizedContents ==
    {<<"t", "h", "e", " ", "p", "a", "r", "s", "e", "r", " ", "f", "a", "i", "l", "s">>,
     <<"F", "a", "i", "l", "s", "!", " ", "w", "i", "t", "h", " ", "l", "o", "g", "s">>}
SummarizedTimes == {1, 2}
SummarizedEpisodes ==
    {[role |-> role, content |-> content, timestamp |-> ts] :
        role \in SummarizedRoles, content \in SummarizedContents, ts \in SummarizedTimes}
SummarizedLists ==
    {<<e>> : e \in SummarizedEpisodes}
        \cup {<<e, f>> : e \in SummarizedEpisodes, f \in SummarizedEpisodes}

NextSummarize ==
    \E list \in SummarizedLists : SummarizeConversations(list)

SpecSummarize == Init /\ [][NextSummarize]_vars

\* enriching a query over a knowledge table of up to three nodes, or over the
\* in-memory store, whose topics contain the keyword "goal"
EnrichTopics == {Str(<<"g", "o", "a", "l">>), Str(<<"g", "o", "a", "l", "s">>),
                 Str(<<"n", "o", " ", "g", "o", "a", "l">>)}
EnrichQueries == {<<"g", "o", "a", "l">>,
                  <<"t", "h", "e", " ", "G", "o", "a", "l", "!", " ", "p", "l", "a", "n">>}

NextEnrich ==
    \/ \E tp \in EnrichTopics :
          StoreKnowledgeWithin(MaxHits, Str(<<"a", "_", "b">>), tp, Str(<<"x">>), NoOptions)
    \/ \E tp \in MemTopics, k \in MemKnowledge, r \in RandomDraws :
          MemStoreKnowledge(tp, k, r)
    \/ \E q \in EnrichQueries : EnrichContextOf(q)
    \/ Tick

SpecEnrich == Init /\ [][NextEnrich]_vars

\* the adapter on either outcome of opening the database
AdapterEpisodes == {Str(<<"h", "i">>)}
AdapterOptions ==
    {NoEpisodeOptions, [NoEpisodeOptions EXCEPT !.conversationId = Str(<<"c", "1">>)]}
AdapterIds == {Null, Num(1), Num(2)}

AdapterValues == {Str(<<"v">>), Num(0)}

NextAdapter ==
    \/ \E k \in StmKeys, v \in AdapterValues : ShortTermStore(k, v, 0)
    \/ \E k \in StmKeys : ShortTermGet(k)
    \/ \E c \in AdapterEpisodes, o \in AdapterOptions : EpisodicStore(c, o)
    \/ \E id \in AdapterIds : EpisodicGet(id)
    \/ Tick

SpecAdapter == (Init \/ InitStub) /\ [][NextAdapter]_vars

Next ==
    \/ NextContexts \/ NextWorking \/ NextKnowledge \/ NextRelations
    \/ NextController \/ NextConsolidate \/ NextExtract \/ NextRetrieve
    \/ NextTurns \/ NextFaults \/ NextShortTerm \/ NextGraph
    \/ NextSearch \/ NextSummaries \/ NextConversations \/ NextSummarize
    \/ NextEnrich \/ NextAdapter \/ NextMetadata \/ NextEdges \/ NextFilter
    \/ NextBanners \/ NextPad \/ NextConfidence
    \/ NextActivate
    \/ NextPromote
    \/ NextInbox
    \/ NextExpiry
    \/ NextAccess

Spec == Init /\ [][Next]_vars

-----------------------------------------------------------------------------
(* Claims about the short-term store *)

SeqToSet(s) == {s[i] : i \in 1..Len(s)}
SeqToBag(s) == [x \in SeqToSet(s) |-> Cardinality({i \in 1..Len(s) : s[i] = x})]

\* the specification's notion of an expired item: expiry strictly in the past
ExpiryInPast(item, t) == item.expires # 0 /\ item.expires < t
LiveItems(list, t) == SelectSeq(list, LAMBDA item : ~ExpiryInPast(item, t))

\* the items of `before` that are live at t and are no longer in `after`
DiscardedLive(before, after, t) ==
    BagToSet(SeqToBag(LiveItems(before, t)) (-) SeqToBag(after))

C2_PruneToTarget ==
    [][\A ts \in PruneTargets :
          (PruneMemory(ts) /\ ts < Len(working_context)) =>
             /\ Len(working_context') =
                   Min(ts, Len(LiveItems(working_context, now)))
             /\ \A kept \in SeqToSet(working_context'),
                   gone \in DiscardedLive(working_context, working_context', now) :
                   kept.importance >= gone.importance]_vars

\* C3 as stated: after pruneMemory, whatever the size and the target, no item
\* with an expiry in the past remains, and no live item was discarded while an
\* expired one was kept.
C3_ExpiryFirstAlways ==
    [][\A ts \in PruneTargets :
          PruneMemory(ts) =>
             /\ \A item \in SeqToSet(working_context') : ~ExpiryInPast(item, now)
             /\ ~(/\ DiscardedLive(working_context, working_context', now) # {}
                  /\ \E item \in SeqToSet(working_context') : ExpiryInPast(item, now))]_vars

\* C3 as amended: when the list holds more items than a positive target, no
\* item with an expiry in the past remains after pruneMemory; and for every
\* size and target no live item is discarded while an expired one is kept.
C3_ExpiryFirstWhenOverTarget ==
    [][\A ts \in PruneTargets :
          PruneMemory(ts) =>
             /\ (ts >= 1 /\ Len(working_context) > ts)
                   => \A item \in SeqToSet(working_context') : ~ExpiryInPast(item, now)
             /\ ~(/\ DiscardedLive(working_context, working_context', now) # {}
                  /\ \E item \in SeqToSet(working_context') : ExpiryInPast(item, now))]_vars

\* a prune to a positive target that removed items and left fewer than the
\* target: the removed ones were expired, not the least important
C3_Witness ==
    /\ lastCall.op = "pruneMemory"
    /\ lastCall.arg.n >= 1
    /\ lastCall.ret.n > 0
    /\ Len(working_context) < lastCall.arg.n

-----------------------------------------------------------------------------
(* Claims about the semantic store *)

\* C4: every storeKnowledge leaves exactly one node under its (category, topic),
\* carrying the content just stored and the id minted by the first store of the
\* pair, and leaves the nodes of the other pairs as they were.
C4_UpsertOneNodePerPair ==
    [][\A c \in KCategories, tp \in KTopics, x \in KContents, o \in KOptions :
          StoreKnowledge(c, tp, x, o) =>
             LET before == knowledgeRows(semantic_knowledge, c, tp)
                 after == knowledgeRows(semantic_knowledge', c, tp)
             IN /\ Cardinality(after) = 1
                /\ \A row \in after :
                      /\ row.content = contentStr(x)
                      /\ before # {} => \E old \in before : row.id = old.id
                      /\ before = {} =>
                            row.id = IF o.id # <<>> THEN o.id ELSE mintId(c, tp, now)
                /\ \A c2 \in KCategories, tp2 \in KTopics :
                      <<c2, tp2>> # <<c, tp>> =>
                         {<<row.id, row.content>> :
                             row \in knowledgeRows(semantic_knowledge', c2, tp2)}
                         = {<<row.id, row.content>> :
                             row \in knowledgeRows(semantic_knowledge, c2, tp2)}]_vars

\* C5: the id storeKnowledge returns identifies the node of (category, topic),
\* on create and on update: getById of it yields what getKnowledge yields.
C5_ReturnedIdIdentifiesNode ==
    [][\A c \in KCategories, tp \in KTopics, x \in KContents :
          (StoreKnowledge(c, tp, x, NoOptions) /\ lastCall'.ret # Null) =>
             /\ getById(semantic_knowledge', lastCall'.ret) # Null
             /\ getById(semantic_knowledge', lastCall'.ret)
                   = getKnowledge(semantic_knowledge', c, tp)]_vars

\* C6: in every reachable state the source and the target of every stored
\* relationship are existing knowledge nodes, whichever script registered
\* createRelationship.
C6_EndpointsExist ==
    /\ \A rel \in knowledge_relationships :
          /\ getById(semantic_knowledge, Str(rel.source_id)) # Null
          /\ getById(semantic_knowledge, Str(rel.target_id)) # Null
    /\ \A i \in 1..Len(knowledgeRelationships) :
          /\ getKnowledgeById(semantic, knowledgeRelationships[i].source_id) # Null
          /\ getKnowledgeById(semantic, knowledgeRelationships[i].target_id) # Null

\* the state of the controller's workflow: between the stored response and
\* the return of the call it is still responding, or consolidating on a turn
\* that consolidated
Phase ==
    CASE pc = "idle" -> "Idle"
      [] pc = "enrich" -> "Enriching"
      [] pc \in {"respond", "count"} -> "Responding"
      [] pc = "consolidate" -> "Consolidating"
      [] pc = "callback" -> IF call.consolidated THEN "Consolidating" ELSE "Responding"

\* the last row of episodic memory is a turn of `role` with this content
LoggedLast(convs, role, content) ==
    /\ convs # <<>>
    /\ convs[Len(convs)].role = role
    /\ convs[Len(convs)].content = content

\* C7: whatever the query (a string or not) and the callback (throwing or
\* not), a finished processInteraction call has returned a string and raised
\* nothing; when a step failed the string is the generic fallback response.
C7_AlwaysReturnsString ==
    (lastCall.op = "processInteraction" /\ pc = "idle") =>
        /\ lastCall.ret.t = "string"
        /\ (call.responseCallback = "throws"
               => lastCall.ret = Str(fallbackText(call.userQuery.s)))

C9_PhaseOrder ==
    [][/\ \A q \in Queries, cb \in Callbacks :
             ProcessInteraction(q, cb) =>
                /\ Phase = "Idle" /\ Phase' = "Enriching"
                /\ getContext(contexts', "current_query") = q
                /\ LoggedLast(conversations', "user", ToText(q))
       /\ Phase' # Phase =>
             <<Phase, Phase'>> \in {<<"Idle", "Enriching">>, <<"Enriching", "Responding">>,
                                    <<"Responding", "Consolidating">>,
                                    <<"Responding", "Idle">>, <<"Consolidating", "Idle">>}
       /\ (Phase = "Responding" /\ Phase' = "Consolidating") =>
             getContext(contexts', "interaction_count").n % 5 = 0
       /\ CountInteraction =>
             /\ getContext(contexts, "last_response") = Str(call.response)
             /\ LoggedLast(conversations, "assistant", call.response)]_vars

\* the knowledge entries tagged source "short_term_memory" held under a topic,
\* in the in-memory store of rules/303 and in table semantic_knowledge
TaggedEntries(sem, topic) ==
    {e \in SeqToSet(topicEntries(sem, topic)) :
        e.source = <<"s", "h", "o", "r", "t", "_", "t", "e", "r", "m", "_", "m", "e", "m", "o", "r", "y">>}
TaggedRows(table, topic) ==
    {row \in table : row.topic = topic /\ row.source = Str(<<"s", "h", "o", "r", "t", "_", "t", "e", "r", "m", "_", "m", "e", "m", "o", "r", "y">>)}
ImportanceLabel(importance) ==
    IF importance >= 5 THEN <<"h", "i", "g", "h">> ELSE <<"m", "e", "d", "i", "u", "m">>

\* C10: from an empty semantic store, after consolidateMemory an entry tagged
\* source "short_term_memory" exists under topic t exactly when the working
\* context holds an item with topic t and importance >= 4, and each such entry
\* carries an item's details as content with label "high" for importance >= 5
\* and "medium" for importance 4.
C10_ImportantItemsConsolidated ==
    [][\A r \in RandomStreams :
          (ConsolidateMemory(r) /\ semantic = InitSemantic /\ semantic_knowledge = {}) =>
             \A tp \in ConsTopics :
                LET items == {item \in SeqToSet(working_context) :
                                 item.topic = tp /\ item.importance >= 4}
                IN /\ (TaggedEntries(semantic', tp) # {} \/ TaggedRows(semantic_knowledge', tp) # {})
                         <=> items # {}
                   /\ \A e \in TaggedEntries(semantic', tp) :
                         \E item \in items :
                            /\ e.content = Str(item.details)
                            /\ e.importance = ImportanceLabel(item.importance)]_vars

\* the entries rules/303 holds under a topic
EntriesUnder(sem, topic) == SeqToSet(topicEntries(sem, topic))
MentionsAny(content, words) == \E word \in words : Includes(content, word)
\* the 20 most recent episodes
RecentEpisodes(convs) == SeqToSet(Take(SortByTimestampDesc(convs), 20))

\* C11: for each of the 20 most recent episodes, after extractKnowledge there
\* is a code_patterns entry of importance "medium" made from it when its
\* content has code vocabulary, and a troubleshooting entry of importance
\* "high" made from it when its content has error vocabulary.
C11_EveryEpisodeClassified ==
    [][\A r \in RandomStreams :
          ExtractKnowledge(r) =>
             \A episode \in RecentEpisodes(conversations) :
                /\ MentionsAny(episode.content, CodeWords) =>
                      \E e \in EntriesUnder(semantic', <<"c", "o", "d", "e", "_", "p", "a", "t", "t", "e", "r", "n", "s">>) :
                         /\ e.importance = <<"m", "e", "d", "i", "u", "m">>
                         /\ e.content = Str(<<"C", "o", "d", "e", " ", "d", "i", "s", "c", "u", "s", "s", "i", "o", "n", ":", " ">>
                               \o Substring(episode.content, 100) \o <<".", ".", ".">>)
                /\ MentionsAny(episode.content, ErrorWords) =>
                      \E e \in EntriesUnder(semantic', <<"t", "r", "o", "u", "b", "l", "e", "s", "h", "o", "o", "t", "i", "n", "g">>) :
                         /\ e.importance = <<"h", "i", "g", "h">>
                         /\ e.content = Str(<<"E", "r", "r", "o", "r", " ", "d", "i", "s", "c", "u", "s", "s", "i", "o", "n", ":", " ">>
                               \o Substring(episode.content, 100) \o <<".", ".", ".">>)]_vars

\* the stored items a getWorkingContext query asks for: topic, importance,
\* expiry not in the past
Matching(list, topic, minImportance, t) ==
    SelectSeq(list, LAMBDA item : /\ (topic = <<>> \/ item.topic = topic)
                                  /\ item.importance >= minImportance
                                  /\ ~ExpiryInPast(item, t))
NonIncreasing(list) ==
    \A i \in 1..Len(list), j \in 1..Len(list) :
       i < j => list[i].importance >= list[j].importance

\* C12: getWorkingContext({topic, minImportance, maxItems}) returns stored
\* items that match the topic, have importance >= minImportance and are not
\* expired, ordered by non-increasing importance, min(maxItems, matches) of
\* them, the most important ones.
C12_FilterSortTruncate ==
    [][\A tp \in QueryTopics, mi \in MinImportances, mx \in MaxItemsArgs :
          GetWorkingContext(tp, mi, mx) =>
             LET wanted == Matching(working_context, tp, mi, now)
                 got == lastCall'.ret.items
             IN /\ SeqToBag(got) \sqsubseteq SeqToBag(wanted)
                /\ Len(got) = Min(mx, Len(wanted))
                /\ NonIncreasing(got)
                /\ \A kept \in SeqToSet(got),
                      cut \in BagToSet(SeqToBag(wanted) (-) SeqToBag(got)) :
                      kept.importance >= cut.importance]_vars

\* the last n elements
LastOf(list, n) == SubSeq(list, Len(list) - Min(n, Len(list)) + 1, Len(list))

\* C13: after any sequence of addConversationTurn calls the conversation
\* context holds at most 10 turns, the min(n, 10) most recently added ones in
\* the order they were added.
C13_LastTenTurns ==
    /\ Len(conversation_context) <= 10
    /\ conversation_context = LastOf(added, 10)

\* an eleventh turn was added and the first one dropped
C13_Witness ==
    /\ Len(added) = 11
    /\ Len(conversation_context) = 10
    /\ conversation_context[1] = added[2]

\* C14: no public operation of the short-term store or of the episodic store
\* throws to its caller, whatever its arguments (a missing argument object, a
\* content that is no string): what the caller gets is never an exception.
C14_StoresNeverThrow ==
    lastCall.op \in {"addWorkingContext", "getWorkingContext", "storeConversation"}
       => lastCall.ret.t # "exception"

\* C15: store(k, v) returns true, on a key that holds an entry too (whatever
\* the value held: 0, false, "", null), leaves exactly one entry for k, and
\* a following get(k) returns v.
C15_OverwriteInPlace ==
    [][\A k \in StmKeys, v \in StmValues :
          ShortTermStore(k, v, 0) =>
             /\ lastCall'.ret = Bool(TRUE)
             /\ Cardinality(stmRows(short_term_memory', k)) = 1
             /\ shortTermGet(short_term_memory', k, now).ret = v]_vars

\* the stored edge a returned row is the row of
EdgeOf(row) ==
    [id |-> row.id, source_id |-> row.source_id, target_id |-> row.target_id,
     relationship_type |-> row.relationship_type, strength |-> row.strength,
     timestamp |-> row.timestamp, metadata |-> row.metadata]

\* the endpoint of a row other than the node asked for
OtherEndpoint(row, id) == IF row.source_id = id THEN row.target_id ELSE row.source_id

\* C16: getRelationships(nodeId, {direction}) returns exactly the stored edges
\* with source nodeId for outgoing, exactly those with target nodeId for
\* incoming, exactly the union for both or no direction, each once, and every
\* returned edge carries category and topic of the endpoint other than nodeId.
C16_EdgesOfDirection ==
    [][(/\ lastCall'.op = "getRelationships"
        /\ lastCall' # lastCall
        /\ lastCall'.arg.relationshipType = Undefined) =>
          LET id == lastCall'.key.s
              d == lastCall'.arg.direction
              rows == lastCall'.ret.items
              outgoing == {rel \in knowledge_relationships : rel.source_id = id}
              incoming == {rel \in knowledge_relationships : rel.target_id = id}
              expected == IF d = Outgoing THEN outgoing
                          ELSE IF d = Incoming THEN incoming
                          ELSE outgoing \cup incoming
          IN /\ Len(rows) = Cardinality(expected)
             /\ {EdgeOf(rows[i]) : i \in 1..Len(rows)} = expected
             /\ \A i \in 1..Len(rows) :
                   \E node \in semantic_knowledge :
                      /\ node.id = OtherEndpoint(rows[i], id)
                      /\ rows[i].category = Str(node.category)
                      /\ rows[i].topic = Str(node.topic)]_vars

\* a call without direction has returned an edge leaving the node and an edge
\* entering it, each with the topic of the node at its other end
C16_Witness ==
    /\ lastCall.op = "getRelationships"
    /\ lastCall.arg.direction = Undefined
    /\ Len(lastCall.ret.items) = 2
    /\ \E i, j \in 1..2 :
          /\ lastCall.ret.items[i].source_id = lastCall.key.s
          /\ lastCall.ret.items[i].target_id # lastCall.key.s
          /\ lastCall.ret.items[j].target_id = lastCall.key.s
          /\ lastCall.ret.items[j].source_id # lastCall.key.s
          /\ lastCall.ret.items[i].topic = lastCall.ret.items[j].topic
          /\ lastCall.ret.items[i].topic # Null

\* the nodes whose topic or content contains the query as a case-insensitive
\* substring
NodesContaining(table, query) ==
    {row \in table : \/ Includes(toLowerCase(row.topic), toLowerCase(query))
                     \/ Includes(toLowerCase(row.content), toLowerCase(query))}

\* C17: search(query) returns nodes whose topic or content contains the query
\* as a case-insensitive substring and only those: the best of them by
\* confidence descending, then lastAccessed descending, at most limit (10 when
\* no limit is given).
C17_SubstringMatchesRanked ==
    [][\A q \in SearchQueries, l \in SearchLimits :
          Search(q, Undefined, l) =>
             LET rows == lastCall'.ret.items
                 matching == NodesContaining(semantic_knowledge, q)
                 returned == {row \in semantic_knowledge :
                                 \E i \in 1..Len(rows) : rows[i].id = row.id}
             IN /\ returned \subseteq matching
                /\ Len(rows) = Min(Cardinality(matching), IF l = 0 THEN 10 ELSE l)
                /\ Cardinality(returned) = Len(rows)
                /\ \A i, j \in 1..Len(rows) :
                      i < j => \/ rows[i].confidence > rows[j].confidence
                               \/ /\ rows[i].confidence = rows[j].confidence
                                  /\ rows[i].last_accessed >= rows[j].last_accessed
                /\ \A row \in returned, other \in matching \ returned :
                      \/ row.confidence > other.confidence
                      \/ /\ row.confidence = other.confidence
                         /\ row.last_accessed >= other.last_accessed]_vars

-----------------------------------------------------------------------------
(* Claims about the episodic store *)

\* the summaries stored for a session
SummariesOf(sums, session_id) ==
    {sums[i] : i \in {j \in 1..Len(sums) : sums[j].session_id = session_id}}

\* C18: getSessionSummary(sessionId) returns, among all the summaries stored
\* for the session, one with the latest end time, whatever the order they were
\* stored in.
C18_LatestSummary ==
    [][\A sid \in SummarySessions :
          (GetSessionSummary(sid) /\ SummariesOf(summaries, sid) # {}) =>
             /\ lastCall'.ret \in SummariesOf(summaries, sid)
             /\ \A other \in SummariesOf(summaries, sid) :
                   other.end_time <= lastCall'.ret.end_time]_vars

\* the episodes a filter asks for: every filter given has to match
MatchingEpisodes(convs, params) ==
    SelectSeq(convs, LAMBDA c :
        /\ params.session_id # <<>> => c.session_id = params.session_id
        /\ params.role # "" => c.role = params.role
        /\ params.start_time # 0 => c.timestamp >= params.start_time
        /\ params.end_time # 0 => c.timestamp <= params.end_time)

\* C19: for every combination of session, role, time range, offset >= 0 and
\* limit >= 0, getConversations returns the stored episodes matching all the
\* filters, latest first, the first `offset` of them skipped and at most
\* `limit` returned.
C19_FilteredPage ==
    [][(/\ lastCall'.op = "getConversations"
        /\ lastCall' # lastCall
        /\ db = "simulated") =>
          LET params == lastCall'.arg
              rows == lastCall'.ret.items
              page == Slice(SortByTimestampDesc(MatchingEpisodes(conversations, params)),
                            params.offset, params.offset + params.limit)
          IN /\ Len(rows) = Len(page)
             /\ \A i \in 1..Len(rows) : rows[i].id = page[i].id]_vars

\* C20: MEMORY_SYSTEM.summarizeConversations on a non-empty list returns a
\* summary with the number of entries per role, the earliest and the latest
\* timestamp, and at most 5 topic words in non-increasing frequency, each
\* longer than 3 characters and no stop word.
C20_StatisticalSummary ==
    [][\A list \in SummarizedLists :
          SummarizeConversations(list) =>
             LET summary == lastCall'.ret
                 words == SplitWords(StripPunctuation(toLowerCase(joinContents(list))))
             IN /\ summary.kind = "Conversation with"
                /\ summary.messages = Len(list)
                /\ \A i \in 1..Len(list) :
                      <<list[i].role,
                        Cardinality({j \in 1..Len(list) : list[j].role = list[i].role})>>
                          \in summary.roleCounts
                /\ \A i \in 1..Len(list) :
                      /\ summary.firstTimestamp <= list[i].timestamp
                      /\ list[i].timestamp <= summary.lastTimestamp
                /\ Len(summary.topics) <= 5
                /\ \A i \in 1..Len(summary.topics) :
                      /\ Len(summary.topics[i]) > 3
                      /\ summary.topics[i] \notin commonWords
                      /\ \A j \in 1..Len(summary.topics) :
                            i < j => wordCount(words, summary.topics[i])
                                        >= wordCount(words, summary.topics[j])]_vars

-----------------------------------------------------------------------------
(* Claims about the memory controller's retrieval *)

\* the words of a query longer than 3 characters
LongWords(query) == SelectSeq(SplitWords(query), LAMBDA word : Len(word) > 3)

\* C21: enrichContext(query) puts at most 2 search hits per keyword into
\* relevantKnowledge: its length never exceeds 2 times the number of words of
\* the query that are longer than 3 characters.
C21_TwoHitsPerKeyword ==
    [][\A q \in EnrichQueries :
          EnrichContextOf(q) =>
             Len(lastCall'.ret.relevantKnowledge) <= 2 * Len(LongWords(q))]_vars

-----------------------------------------------------------------------------
(* Claims about the database adapter *)

\* C22: when the database could not be opened, the stand-in behaves like the
\* durable store: store(k, v) returns true and a following get(k) returns v,
\* and an episodic store returns an id under which the episode is read back.
C22_StandInRoundTrip ==
    [][connection = "stub" =>
          /\ \A k \in StmKeys :
                ShortTermStore(k, Str(<<"v">>), 0) =>
                   /\ lastCall'.ret = Bool(TRUE)
                   /\ shortTermGetOn(connection', short_term_memory', k, now).ret
                         = Str(<<"v">>)
          /\ \A c \in AdapterEpisodes :
                EpisodicStore(c, [NoEpisodeOptions EXCEPT !.conversationId = Str(<<"c", "1">>)]) =>
                   /\ lastCall'.ret.t = "number"
                   /\ episodicGet(connection', episodic_memory', lastCall'.ret) # Null
                   /\ episodicGet(connection', episodic_memory', lastCall'.ret).content = c]_vars

\* C23: once a durable write has failed, the stand-in serves every later
\* operation; right after a store that failed, the adapter's db is the stand-in.
C23_FailoverAfterFailedWrite ==
    (lastCall.op = "shortTerm.store" /\ lastCall.ret = Bool(FALSE))
       => connection = "stub"

\* C24: no read alters a stored episode: in every step each episode held
\* keeps all of its fields, metadata included (no step of the episodic store
\* updates an importance).
C24_ReadsLeaveEpisodes ==
    [][\A i \in 1..Len(conversations) :
          /\ i <= Len(conversations')
          /\ conversations'[i] = conversations[i]]_vars

\* a stored metadata that is a text and no JSON
UndeserializableText(metadata) == metadata.layers = 0 /\ metadata.type # <<>>

\* C25: a read of an episode whose stored metadata text does not deserialize
\* returns the metadata as that same text.
C25_MetadataTextKept ==
    [][lastCall'.op = "getConversations" /\ lastCall' # lastCall
         => \A i \in 1..Len(lastCall'.ret.items) :
               \A j \in 1..Len(conversations) :
                  /\ conversations[j].id = lastCall'.ret.items[i].id
                  /\ UndeserializableText(conversations[j].metadata)
                  => lastCall'.ret.items[i].metadata = conversations[j].metadata]_vars

\* no two relationships of the store have the same source, target and type
OnePerTriple(rels) ==
    \A a \in rels, b \in rels :
       (/\ a.source_id = b.source_id
        /\ a.target_id = b.target_id
        /\ a.relationship_type = b.relationship_type) => a = b

\* the relationships MEMORY_SYSTEM.createRelationship has written, whichever
\* script registered it
WrittenRelationships ==
    IF registered = "MemoryDB" THEN knowledge_relationships
    ELSE {knowledgeRelationships[i] : i \in 1..Len(knowledgeRelationships)}

\* C26: in every reachable state there is at most one relationship per
\* (source, target, type), and after a successful createRelationship the
\* relationship of its triple carries the strength and the metadata of that
\* call.
C26_OneEdgePerTriple ==
    /\ []OnePerTriple(WrittenRelationships)
    /\ [][(lastCall'.op = "createRelationship" /\ lastCall' # lastCall
            /\ registered = "MemoryDB" /\ lastCall'.ret = Bool(TRUE))
          => \E rel \in knowledge_relationships' :
                /\ rel.source_id = ToText(lastCall'.key[1])
                /\ rel.target_id = ToText(lastCall'.key[2])
                /\ rel.relationship_type = ToText(lastCall'.arg.relationshipType)
                /\ lastCall'.arg.options.strength # Undefined
                      => rel.strength = lastCall'.arg.options.strength.n
                /\ lastCall'.arg.options.metadata # Undefined
                      => rel.metadata = Str(JSONstringify(lastCall'.arg.options.metadata))]_vars

\* the rows the last read returned: one row, none, or a list
RowsRead(result) ==
    IF "items" \in DOMAIN result THEN {result.items[i] : i \in 1..Len(result.items)}
    ELSE IF "id" \in DOMAIN result THEN {result}
    ELSE {}

\* C27: every node returned by getKnowledge, getById, getByCategory or search
\* has its lastAccessed set to the time of the read; no step lowers the
\* lastAccessed of a node; and of two nodes of equal confidence a search
\* returns, the one accessed later comes first.
C27_ReadsTouch ==
    [][/\ (lastCall' # lastCall
           /\ lastCall'.op \in {"getKnowledge", "getById", "getByCategory", "search"})
          => \A read \in RowsRead(lastCall'.ret) :
                \E row \in semantic_knowledge' :
                   row.id = read.id /\ row.last_accessed = now
       /\ \A row \in semantic_knowledge :
             \A after \in semantic_knowledge' :
                after.id = row.id => after.last_accessed >= row.last_accessed
       /\ (lastCall' # lastCall /\ lastCall'.op = "search")
          => \A i, j \in 1..Len(lastCall'.ret.items) :
                LET a == CHOOSE row \in semantic_knowledge :
                            row.id = lastCall'.ret.items[i].id
                    b == CHOOSE row \in semantic_knowledge :
                            row.id = lastCall'.ret.items[j].id
                IN (a.confidence = b.confidence /\ a.last_accessed > b.last_accessed)
                      => i < j]_vars

\* a search has returned two nodes of equal confidence, first the one that a
\* read had touched after it was stored, and has touched both
C27_Witness ==
    /\ lastCall.op = "search"
    /\ Len(lastCall.ret.items) = 2
    /\ lastCall.ret.items[1].confidence = lastCall.ret.items[2].confidence
    /\ lastCall.ret.items[1].last_accessed > lastCall.ret.items[2].last_accessed
    /\ lastCall.ret.items[1].last_accessed > lastCall.ret.items[1].timestamp
    /\ lastCall.ret.items[1].timestamp >= lastCall.ret.items[2].timestamp
    /\ \A row \in semantic_knowledge : row.last_accessed = now

\* C30: search(query, {category: c}) returns only nodes of category c.
C30_OnlyTheCategory ==
    [][(lastCall' # lastCall /\ lastCall'.op = "search"
        /\ Truthy(lastCall'.arg.category))
          => \A i \in 1..Len(lastCall'.ret.items) :
                lastCall'.ret.items[i].category = ToText(lastCall'.arg.category)]_vars

\* C28: after a call of the exported forceBanners the banners are those the
\* status tests give at that moment: ACTIVE exactly for the systems that are
\* functional then.
C28_BannersRefreshed ==
    [][ForceBanners => nextResponsePrepend' = statusBanners(installed')]_vars

\* C29: createAgentTask(description, assignee) adds exactly one task, pending,
\* returns its id, and leaves for the assignee a message from "system" with
\* the content "New task assigned: <description>" that a readAgentMessages of
\* the assignee returns.
C29_TaskAnnounced ==
    [][(lastCall' # lastCall /\ lastCall'.op = "createAgentTask")
          => /\ Len(tasks') = Len(tasks) + 1
             /\ SubSeq(tasks', 1, Len(tasks)) = tasks
             /\ tasks'[Len(tasks')].status = "pending"
             /\ lastCall'.ret = Str(tasks'[Len(tasks')].id)
             /\ \E k \in 1..Len(readMessages(messages', lastCall'.key, defaultOptions).ret) :
                   LET msg == readMessages(messages', lastCall'.key, defaultOptions).ret[k]
                   IN /\ msg.from = "system"
                      /\ msg.content = taskNotice(lastCall'.arg)]_vars

\* C31: getRelationships(nodeId, {relationshipType: t}) returns only edges of
\* type t, whatever the direction asked for.
C31_OnlyTheType ==
    [][(/\ lastCall'.op = "getRelationships"
        /\ lastCall' # lastCall
        /\ Truthy(lastCall'.arg.relationshipType))
          => \A i \in 1..Len(lastCall'.ret.items) :
                lastCall'.ret.items[i].relationship_type
                    = ToText(lastCall'.arg.relationshipType)]_vars

\* C32: a storeKnowledge that is given a confidence stores exactly that
\* confidence, 0 included.
C32_ConfidenceKept ==
    [][\A tp \in ConfidenceTopics, o \in ConfidenceOptions :
          (/\ StoreKnowledge(Str(<<"a", "_", "b">>), tp, Str(<<"x">>), o)
           /\ lastCall'.ret # Null
           /\ o.confidence # Undefined)
             => \E row \in semantic_knowledge' :
                   /\ row.category = <<"a", "_", "b">>
                   /\ row.topic = tp.s
                   /\ row.confidence = o.confidence.n]_vars

\* C33: an item whose expiry equals the current time is returned by a
\* getWorkingContext that does not truncate, and is kept by a pruneMemory
\* that has no more unexpired items than its target.
C33_ExpiryAtNowIsLive ==
    [][/\ (lastCall' # lastCall /\ lastCall'.op = "getWorkingContext"
           /\ lastCall'.arg.maxItems = 0)
          => \A item \in SeqToSet(working_context) :
                item.expires = now => item \in SeqToSet(lastCall'.ret.items)
       /\ (lastCall' # lastCall /\ lastCall'.op = "pruneMemory"
           /\ Len(LiveItems(working_context, now)) <= EffectiveTarget(lastCall'.arg.n))
          => \A item \in SeqToSet(working_context) :
                item.expires = now => item \in SeqToSet(working_context')]_vars

\* the positions of the unread messages addressed to the agent
UnreadTo(msgs, agent) == {i \in 1..Len(msgs) : msgs[i].to = agent /\ ~msgs[i].read}

\* C34: a readMessages(agent, {onlyUnread: true}) with the default marking
\* returns unread messages of the agent only, as many as the limit allows, and
\* afterwards exactly the returned ones have become read: the unread messages
\* of the agent are fewer by the number returned (none is returned again, the
\* ones left out stay to be returned) and no other agent's message is marked.
C34_EachMessageOnce ==
    [][(/\ lastCall'.op = "readMessages"
        /\ lastCall' # lastCall
        /\ lastCall'.arg.onlyUnread
        /\ lastCall'.arg.markAsRead
        /\ lastCall'.arg.from = Null)
          => /\ Len(lastCall'.ret.items)
                  = Min(lastCall'.arg.limit, Cardinality(UnreadTo(messages, lastCall'.key)))
             /\ Cardinality(UnreadTo(messages', lastCall'.key))
                  = Cardinality(UnreadTo(messages, lastCall'.key)) - Len(lastCall'.ret.items)
             /\ \A other \in PadAgents \ {lastCall'.key} :
                   UnreadTo(messages', other) = UnreadTo(messages, other)]_vars

\* C35: a shortTerm.get that follows a successful shortTerm.store of the same
\* key, before the expiry of the entry, returns the value that was stored,
\* with its type: a string comes back as that string.
C35_SameTypeAndContent ==
    [][(/\ lastCall.op = "shortTerm.store"
        /\ lastCall.ret = Bool(TRUE)
        /\ connection = "sqlite"
        /\ lastCall'.op = "shortTerm.get"
        /\ lastCall'.key = lastCall.key
        /\ \A row \in stmRows(short_term_memory, lastCall.key) :
              row.expiry_time = 0 \/ now <= row.expiry_time)
          => lastCall'.ret = lastCall.arg]_vars

\* a stored metadata made from a metadata object: JSON over JSON over {}
MetadataOfObject(metadata) == metadata.layers = 2 /\ metadata.type = <<>>

\* C36: a getConversations that follows a storeConversation with a metadata
\* object returns the stored episode with metadata equal to that object.
C36_MetadataRoundTrip ==
    [][(/\ lastCall.op = "storeConversation"
        /\ lastCall.ret.t = "number"
        /\ lastCall'.op = "getConversations")
          => \A i \in 1..Len(lastCall'.ret.items) :
                (/\ lastCall'.ret.items[i].id = lastCall.ret.n
                 /\ MetadataOfObject(conversations[lastCall.ret.n].metadata))
                   => lastCall'.ret.items[i].metadata = [layers |-> 0, type |-> <<>>]]_vars

\* C37: a consolidateMemory that follows a consolidateMemory, with no call
\* in between, leaves under every topic as many entries promoted from
\* short-term memory as there were: no topic gets a second entry.
C37_ConsolidateIdempotent ==
    [][\A r \in RandomStreams :
          (ConsolidateMemory(r) /\ lastCall.op = "consolidateMemory") =>
             \A tp \in ConsTopics :
                /\ Cardinality(TaggedEntries(semantic', tp))
                     = Cardinality(TaggedEntries(semantic, tp))
                /\ Cardinality(TaggedRows(semantic_knowledge', tp))
                     = Cardinality(TaggedRows(semantic_knowledge, tp))]_vars

\* C38: from an empty semantic store, every entry that consolidateMemory
\* writes comes from an item of the working context whose expiry is not in
\* the past at the time of the call.
C38_NoExpiredPromoted ==
    [][\A r \in RandomStreams :
          (ConsolidateMemory(r) /\ semantic = InitSemantic /\ semantic_knowledge = {}) =>
             \A tp \in ConsTopics :
                /\ \A e \in TaggedEntries(semantic', tp) :
                      \E item \in SeqToSet(working_context) :
                         /\ item.topic = tp
                         /\ e.content = Str(item.details)
                         /\ ~ExpiryInPast(item, now)
                /\ TaggedRows(semantic_knowledge', tp) # {}
                      => \E item \in SeqToSet(working_context) :
                            item.topic = tp /\ ~ExpiryInPast(item, now)]_vars

\* C39: once a processInteraction call that stored its response under
\* "last_response" and logged it as an assistant episode has returned, the
\* string it returned is that stored response.
C39_ReturnsStoredResponse ==
    (/\ pc = "idle"
     /\ lastCall.op = "processInteraction"
     /\ call.response # <<>>
     /\ getContext(contexts, "last_response") = Str(call.response)
     /\ \E i \in 1..Len(conversations) :
           /\ conversations[i].role = "assistant"
           /\ conversations[i].content = call.response)
       => lastCall.ret = getContext(contexts, "last_response")

\* C40: activateMemory on a memory system that holds data replaces nothing:
\* every value getContext returned before the activation it returns after
\* it, and the working-context operations are still there.
C40_ActivationKeepsData ==
    [][ActivateMemory =>
          /\ \A k \in CtxNames :
                contexts[k] # Absent
                   => readContext(memoryObject', contexts', k)
                         = readContext(memoryObject, contexts, k)
          /\ hasWorkingContext(memoryObject) => hasWorkingContext(memoryObject')]_vars

====
